---- MODULE Spec2Model ----
(***************************************************************************)
(* Model of the time-extraction core of mkwo-records-bot:                  *)
(*   - the provider failover client  (src/src/ocr/mod.rs,                  *)
(*     extract_time_with_model, call_openrouter, call_groq),               *)
(*   - the duration post-processing  (post_process_to_duration,            *)
(*     parse_duration),                                                    *)
(*   - the local step pipeline       (src/src/ocr.rs, Step::run,           *)
(*     run_pipeline_from_bytes),                                           *)
(*   - the card finder               (src/src/ocr.rs, FindCardCrop),       *)
(*   - the payload-size negotiator   (src/src/ocr/mod.rs,                  *)
(*     prepare_image_data_url),                                            *)
(*   - the /play command and the upload handler over the Players and       *)
(*     Records sheets (play.rs, image.rs, src/src/sheets),                 *)
(*   - the setters of a Record and of a Player over GSheet::write_cell.    *)
(* Texts are sequences of characters (one-character strings; a few         *)
(* multi-letter names stand for single non-ASCII or control characters).   *)
(***************************************************************************)
EXTENDS Integers, Sequences, FiniteSets, TLC

VARIABLES
    \* ---- provider failover (extract_time_with_model) ----
    env_PROVIDER_ORDER, \* the PROVIDER_ORDER variable: [set, val]
    env_keys,           \* providers whose *_API_KEY variable is set
    pc,                 \* position of the async call
    providers,          \* Vec<Provider> returned by read_provider_order
    idx,                \* position of the for loop in providers (1-based)
    last_err,           \* Option<ExtractError>
    result,             \* the value returned to the caller
    sent,               \* list positions to which a request was sent, in order
    inflight,           \* list positions whose request has not completed
    answers,            \* what each contacted position answered, in order
    \* ---- step pipeline (run_pipeline_from_bytes) ----
    p_pc,               \* position of the pipeline run
    p_input,            \* the properties of the input bytes that decide the run
    p_debug,            \* the debug argument
    p_env_DEBUG_FOLDER, \* whether DEBUG_FOLDER is set
    p_i,                \* enumerate() index of the next step (0-based)
    p_data,             \* the PipelineData carried between steps
    p_calls,            \* process invocations so far: <<step index, input>>
    p_files,            \* debug artifacts written: <<index, step name>>
    p_result,           \* the value returned to the caller
    p_failed,           \* index of the step whose run returned Err, or -1
    \* ---- time texts (parse_duration, post_process_to_duration) ----
    t_pc,               \* which conversion has been applied to t_text
    t_text,             \* the text handed to the parser
    t_parsed,           \* parse_duration(t_text)
    t_post,             \* post_process_to_duration(t_text)
    t_str,              \* duration_to_string of the parsed Duration
    \* ---- card finder (FindCardCrop::process) ----
    c_pc,               \* position of the call
    c_dim,              \* labels.dimensions(): <<lw, lh>>
    c_closed,           \* the foreground pixels <<x, y>> of the cleaned mask
    c_order,            \* the order in which extents.values() yielded the labels
    c_result,           \* the value returned: the crop rectangle or the error
    \* ---- payload negotiator (prepare_image_data_url) ----
    d_pc,               \* position of the call
    d_input,            \* the input bytes: [decodable, dim, alpha]
    d_current,          \* dimensions <<w, h>> of the image current
    d_prefer_png,       \* prefer_png
    d_side_cap,         \* side_cap
    d_jpeg_quality,     \* jpeg_quality
    d_round,            \* iterations of for _ in 0..10 entered so far
    d_attempts,         \* the encodings made in the latest iteration, in order
    d_result,           \* the value returned: the data URL or the error
    \* ---- image sizes through the step pipeline (run_pipeline_from_bytes) ----
    s_pc,               \* position of the run
    s_input,            \* the decoded image: [dim, card], card the box FindCardCrop selects
    s_i,                \* enumerate() index of the next step (0-based)
    s_data,             \* the PipelineData between steps: [variant, dim, len]
    s_result,           \* the value returned: [tag, step]
    \* ---- /play commands of one user (play_command, Players::create) ----
    y_pc,               \* position of each command
    y_lock,             \* holder of gsheet.sheets (the Mutex), 0 when free
    y_rows,             \* the user_id column of the Players sheet, top to bottom
    y_outcome,          \* the PlayCmdOutcome of each command
    \* ---- one uploaded image: process_ocr_message ----
    o_pc,               \* position within process_ocr_message
    o_msg,              \* the uploaded message and the bot's reply to it
    o_players,          \* rows of the Players sheet below the header
    o_edits,            \* changes other handlers made to the Players sheet
    o_time,             \* what extract_time returned
    o_player,           \* the Player the lookup returned
    o_records,          \* rows of the Records sheet below the header
    o_outcome,          \* the OcrProcessOutcome returned
    \* ---- setters of one Record and one Player ----
    e_record,           \* the Record in memory
    e_player,           \* the Player in memory
    e_sheet,            \* the cells of the Records and Players sheets
    e_last              \* the last setter call: its name, the value it sent, its result

foVars == <<env_PROVIDER_ORDER, env_keys, pc, providers, idx, last_err, result,
            sent, inflight, answers>>
plVars == <<p_pc, p_input, p_debug, p_env_DEBUG_FOLDER, p_i, p_data, p_calls,
            p_files, p_result, p_failed>>
ptVars == <<t_pc, t_text, t_parsed, t_post, t_str>>
cdVars == <<c_pc, c_dim, c_closed, c_order, c_result>>
duVars == <<d_pc, d_input, d_current, d_prefer_png, d_side_cap, d_jpeg_quality,
            d_round, d_attempts, d_result>>
shVars == <<s_pc, s_input, s_i, s_data, s_result>>
pyVars == <<y_pc, y_lock, y_rows, y_outcome>>
ocVars == <<o_pc, o_msg, o_players, o_edits, o_time, o_player, o_records, o_outcome>>
stVars == <<e_record, e_player, e_sheet, e_last>>
vars == <<foVars, plVars, ptVars, cdVars, duVars, shVars, pyVars, ocVars, stVars>>
\* what the actions of one subsystem leave alone
notFoVars == <<plVars, ptVars, cdVars, duVars, shVars, pyVars, ocVars, stVars>>
notPlVars == <<foVars, ptVars, cdVars, duVars, shVars, pyVars, ocVars, stVars>>
notPtVars == <<foVars, plVars, cdVars, duVars, shVars, pyVars, ocVars, stVars>>
notCdVars == <<foVars, plVars, ptVars, duVars, shVars, pyVars, ocVars, stVars>>
notDuVars == <<foVars, plVars, ptVars, cdVars, shVars, pyVars, ocVars, stVars>>
notShVars == <<foVars, plVars, ptVars, cdVars, duVars, pyVars, ocVars, stVars>>
notPyVars == <<foVars, plVars, ptVars, cdVars, duVars, shVars, ocVars, stVars>>
notOcVars == <<foVars, plVars, ptVars, cdVars, duVars, shVars, pyVars, stVars>>
notStVars == <<foVars, plVars, ptVars, cdVars, duVars, shVars, pyVars, ocVars>>

-----------------------------------------------------------------------------
(* Bounds of the model *)

\* longest PROVIDER_ORDER list (number of comma-separated entries)
MaxProviders == 3

\* longest minute field of the sampled time texts
MaxMinuteDigits == 2

\* largest mask given to the card finder, in pixels (width * height)
MaxPixels == 9

\* number of /play commands of one user that are in progress together
MaxCommands == 2

-----------------------------------------------------------------------------
(* Characters and text helpers (Rust str methods and the regex crate) *)

AsciiDigit == {"0", "1", "2", "3", "4", "5", "6", "7", "8", "9"}
\* a decimal digit outside ASCII (U+0663): \d of the regex crate is Unicode-aware
UnicodeDigit == {"U0663"}
UpperSeq == <<"A", "B", "C", "D", "E", "F", "G", "H", "I", "J", "K", "L", "M",
              "N", "O", "P", "Q", "R", "S", "T", "U", "V", "W", "X", "Y", "Z">>
LowerSeq == <<"a", "b", "c", "d", "e", "f", "g", "h", "i", "j", "k", "l", "m",
              "n", "o", "p", "q", "r", "s", "t", "u", "v", "w", "x", "y", "z">>
Letter == {UpperSeq[i] : i \in 1..26} \cup {LowerSeq[i] : i \in 1..26}
WhiteSpace == {" ", "LF", "TAB"}

\* char::to_ascii_lowercase
ToAsciiLowerChar(c) ==
    IF \E i \in 1..26 : UpperSeq[i] = c
    THEN LowerSeq[CHOOSE i \in 1..26 : UpperSeq[i] = c]
    ELSE c

\* str::to_ascii_lowercase
ToAsciiLower(s) == [i \in 1..Len(s) |-> ToAsciiLowerChar(s[i])]

RECURSIVE TrimStart(_)
TrimStart(s) ==
    IF s # <<>> /\ Head(s) \in WhiteSpace THEN TrimStart(Tail(s)) ELSE s

RECURSIVE TrimEnd(_)
TrimEnd(s) ==
    IF s # <<>> /\ s[Len(s)] \in WhiteSpace
    THEN TrimEnd(SubSeq(s, 1, Len(s) - 1))
    ELSE s

\* str::trim
Trim(s) == TrimEnd(TrimStart(s))

\* str::split(sep) collected: always at least one piece
RECURSIVE SplitFrom(_, _, _)
SplitFrom(s, sep, cur) ==
    IF s = <<>> THEN <<cur>>
    ELSE IF Head(s) = sep THEN <<cur>> \o SplitFrom(Tail(s), sep, <<>>)
    ELSE SplitFrom(Tail(s), sep, Append(cur, Head(s)))

Split(s, sep) == SplitFrom(s, sep, <<>>)

\* pieces joined by sep (how a PROVIDER_ORDER value is written)
RECURSIVE Join(_, _)
Join(pieces, sep) ==
    IF pieces = <<>> THEN <<>>
    ELSE IF Len(pieces) = 1 THEN pieces[1]
    ELSE pieces[1] \o <<sep>> \o Join(Tail(pieces), sep)

\* str::eq_ignore_ascii_case
EqIgnoreAsciiCase(a, b) == ToAsciiLower(a) = ToAsciiLower(b)

\* regex classes: \d and \w are Unicode-aware, [0-5] is not
IsDigit(c) == c \in AsciiDigit \cup UnicodeDigit
IsWord(c) == c \in AsciiDigit \cup UnicodeDigit \cup Letter \cup {"_"}

\* value of an ASCII digit
DigitVal(c) == CHOOSE n \in 0..9 : <<"0", "1", "2", "3", "4", "5", "6", "7", "8", "9">>[n + 1] = c

\* str::parse::<u64> on a string of regex digits: fails on a non-ASCII digit
ParseU64Ok(s) == \A i \in 1..Len(s) : s[i] \in AsciiDigit

RECURSIVE ParseU64(_)
ParseU64(s) ==
    IF s = <<>> THEN 0
    ELSE ParseU64(SubSeq(s, 1, Len(s) - 1)) * 10 + DigitVal(s[Len(s)])

-----------------------------------------------------------------------------
(* ExtractError and Result<Duration> values *)

NoErr == [tag |-> "None", kind |-> "", prov |-> "", code |-> 0, detail |-> "", text |-> <<>>, ms |-> 0]
Err(kind, prov, code, detail, text) ==
    [tag |-> "Err", kind |-> kind, prov |-> prov, code |-> code, detail |-> detail,
     text |-> text, ms |-> 0]
OkDuration(ms) ==
    [tag |-> "Ok", kind |-> "", prov |-> "", code |-> 0, detail |-> "", text |-> <<>>, ms |-> ms]
Pending == [tag |-> "Pending", kind |-> "", prov |-> "", code |-> 0, detail |-> "", text |-> <<>>, ms |-> 0]

ErrNoProviders == Err("NoProviders", "", 0, "", <<>>)
ErrYellowMissing == Err("YellowMissing", "", 0, "", <<>>)

-----------------------------------------------------------------------------
(* Post-processing of a provider's text (src/src/ocr/mod.rs:113-117, 483-522) *)

\* TIME_STRICT_RE  ^(\d):([0-5]\d)\.(\d{3})$  matches the whole of s
TIME_STRICT_RE_is_match(s) ==
    /\ Len(s) = 8
    /\ IsDigit(s[1])
    /\ s[2] = ":"
    /\ s[3] \in {"0", "1", "2", "3", "4", "5"}
    /\ IsDigit(s[4])
    /\ s[5] = "."
    /\ IsDigit(s[6]) /\ IsDigit(s[7]) /\ IsDigit(s[8])

\* \b : a word character on exactly one side of the position before s[i]
WordBoundary(s, i) ==
    LET before == i > 1 /\ i - 1 <= Len(s) /\ IsWord(s[i - 1])
        after == i >= 1 /\ i <= Len(s) /\ IsWord(s[i])
    IN before # after

\* TIME_FINDER_RE  (?m)\b(\d):([0-5]\d)\.(\d{3})\b  matches s[i..i+7]
FinderMatchAt(s, i) ==
    /\ i >= 1 /\ i + 7 <= Len(s)
    /\ WordBoundary(s, i)
    /\ TIME_STRICT_RE_is_match(SubSeq(s, i, i + 7))
    /\ WordBoundary(s, i + 8)

\* TIME_FINDER_RE.find(s): the leftmost match, <<>> standing for None
TIME_FINDER_RE_find(s) ==
    IF \E i \in 1..Len(s) : FinderMatchAt(s, i)
    THEN LET i == CHOOSE j \in 1..Len(s) :
                      /\ FinderMatchAt(s, j)
                      /\ \A k \in 1..(j - 1) : ~FinderMatchAt(s, k)
         IN SubSeq(s, i, i + 7)
    ELSE <<>>

\* faulty variant: the milliseconds are not added to the Duration
parse_duration_noMillis(s) ==
    IF ~TIME_STRICT_RE_is_match(s) THEN Err("InvalidFormat", "", 0, "", s)
    ELSE LET c1 == SubSeq(s, 1, 1)
             c2 == SubSeq(s, 3, 4)
             c3 == SubSeq(s, 6, 8)
         IN IF ~ParseU64Ok(c1) THEN Err("MinutesParse", "", 0, "invalid digit", <<>>)
            ELSE IF ~ParseU64Ok(c2) THEN Err("SecondsParse", "", 0, "invalid digit", <<>>)
            ELSE IF ParseU64(c2) > 59 THEN Err("InvalidFormat", "", 0, "", c2)
            ELSE IF ~ParseU64Ok(c3) THEN Err("MillisParse", "", 0, "invalid digit", <<>>)
            ELSE OkDuration((ParseU64(c1) * 60 + ParseU64(c2)) * 1000)

\* parse_duration
parse_duration(s) ==
    IF ~TIME_STRICT_RE_is_match(s) THEN Err("InvalidFormat", "", 0, "", s)
    ELSE LET c1 == SubSeq(s, 1, 1)
             c2 == SubSeq(s, 3, 4)
             c3 == SubSeq(s, 6, 8)
         IN IF ~ParseU64Ok(c1) THEN Err("MinutesParse", "", 0, "invalid digit", <<>>)
            ELSE IF ~ParseU64Ok(c2) THEN Err("SecondsParse", "", 0, "invalid digit", <<>>)
            ELSE IF ParseU64(c2) > 59 THEN Err("InvalidFormat", "", 0, "", c2)
            ELSE IF ~ParseU64Ok(c3) THEN Err("MillisParse", "", 0, "invalid digit", <<>>)
            ELSE OkDuration((ParseU64(c1) * 60 + ParseU64(c2)) * 1000 + ParseU64(c3))

\* faulty variant: the finder pattern is not tried
post_process_to_duration_strictOnly(t) ==
    LET text == Trim(t)
    IN IF EqIgnoreAsciiCase(text, <<"n", "u", "l", "l">>) THEN ErrYellowMissing
       ELSE IF TIME_STRICT_RE_is_match(text) THEN parse_duration(text)
       ELSE ErrYellowMissing

\* post_process_to_duration
post_process_to_duration(t) ==
    LET text == Trim(t)
    IN IF EqIgnoreAsciiCase(text, <<"n", "u", "l", "l">>) THEN ErrYellowMissing
       ELSE IF TIME_STRICT_RE_is_match(text) THEN parse_duration(text)
       ELSE IF TIME_FINDER_RE_find(text) # <<>> THEN parse_duration(TIME_FINDER_RE_find(text))
       ELSE ErrYellowMissing

\* format!("{n}") of an unsigned integer
RECURSIVE ToDecimal(_)
ToDecimal(n) ==
    LET d == <<"0", "1", "2", "3", "4", "5", "6", "7", "8", "9">>
    IN IF n < 10 THEN <<d[n + 1]>> ELSE ToDecimal(n \div 10) \o <<d[(n % 10) + 1]>>

\* the {:0>w} format specification: fill with "0" on the left up to width w
RECURSIVE PadZero(_, _)
PadZero(s, w) == IF Len(s) >= w THEN s ELSE PadZero(<<"0">> \o s, w)

\* duration_to_string (src/src/discord/templates/record.rs:47-52), the
\* Duration given in milliseconds
duration_to_string(ms) ==
    LET as_secs == ms \div 1000
        minutes == as_secs \div 60
        seconds == as_secs - minutes * 60
        millis == ms % 1000
    IN ToDecimal(minutes) \o <<":">> \o PadZero(ToDecimal(seconds), 2)
           \o <<".">> \o PadZero(ToDecimal(millis), 3)

-----------------------------------------------------------------------------
(* Provider failover: extract_time_with_model (src/src/ocr/mod.rs:125-336) *)

\* reqwest::StatusCode constants named by the retry classification
TOO_MANY_REQUESTS == 429
INTERNAL_SERVER_ERROR == 500
BAD_GATEWAY == 502
SERVICE_UNAVAILABLE == 503
GATEWAY_TIMEOUT == 504

\* the statuses a provider may answer with
StatusCodes == {200, 201, 400, 401, 404, 429, 500, 501, 502, 503, 504}

\* StatusCode::is_success
is_success(code) == code >= 200 /\ code <= 299

\* enum Provider
Provider == {"OpenRouter", "Groq"}

C_openrouter == <<"o", "p", "e", "n", "r", "o", "u", "t", "e", "r">>
C_groq == <<"g", "r", "o", "q">>

\* let default = "openrouter,groq"
DefaultOrder == C_openrouter \o <<",">> \o C_groq

\* entries as they may be written in PROVIDER_ORDER
RawTokens == { C_openrouter,
               <<" ", "G", "r", "o", "q">>,
               <<"o", "l", "l", "a", "m", "a">> }

\* the filter_map closure of read_provider_order: <<>> stands for None
ProviderOfName(name) ==
    IF name = C_openrouter THEN <<"OpenRouter">>
    ELSE IF name = C_groq THEN <<"Groq">>
    ELSE <<>>

RECURSIVE FilterMapProviders(_)
FilterMapProviders(pieces) ==
    IF pieces = <<>> THEN <<>>
    ELSE ProviderOfName(ToAsciiLower(Trim(Head(pieces)))) \o FilterMapProviders(Tail(pieces))

\* read_provider_order
read_provider_order(env) ==
    LET raw == IF env.set THEN env.val ELSE DefaultOrder
    IN FilterMapProviders(Split(raw, ","))

\* the &'static str each call_* puts in its errors
ProviderName(p) == IF p = "OpenRouter" THEN "openrouter" ELSE "groq"

\* call_openrouter: env::var("OPENROUTER_API_KEY").map_err(..)?
call_openrouter_key(keys) ==
    IF "OpenRouter" \in keys THEN NoErr
    ELSE Err("ProviderDecode", "openrouter", 0, "missing OPENROUTER_API_KEY", <<>>)

\* call_groq: env::var("GROQ_API_KEY").map_err(..)?
call_groq_key(keys) ==
    IF "Groq" \in keys THEN NoErr
    ELSE Err("ProviderDecode", "groq", 0, "missing GROQ_API_KEY", <<>>)

\* call_openrouter: the two status checks after send (NoErr: go on to the body)
call_openrouter_status(code) ==
    IF code = TOO_MANY_REQUESTS THEN Err("RateLimited", "openrouter", 0, "", <<>>)
    ELSE IF ~is_success(code) THEN Err("ProviderStatus", "openrouter", code, "", <<>>)
    ELSE NoErr

\* call_groq: the two status checks after send
call_groq_status(code) ==
    IF code = TOO_MANY_REQUESTS THEN Err("RateLimited", "groq", 0, "", <<>>)
    ELSE IF ~is_success(code) THEN Err("ProviderStatus", "groq", code, "", <<>>)
    ELSE NoErr

\* matches!(e, ..) of the OpenRouter arm
OpenRouterArmRetryable(e) ==
    \/ e.kind = "RateLimited"
    \/ e.kind = "Http"
    \/ e.kind = "ProviderStatus" /\ e.code = TOO_MANY_REQUESTS
    \/ e.kind = "ProviderStatus" /\ e.code = BAD_GATEWAY
    \/ e.kind = "ProviderStatus" /\ e.code = SERVICE_UNAVAILABLE
    \/ e.kind = "ProviderStatus" /\ e.code = GATEWAY_TIMEOUT
    \/ e.kind = "ProviderStatus" /\ e.code = INTERNAL_SERVER_ERROR

\* matches!(e, ..) of the Groq arm
GroqArmRetryable(e) ==
    \/ e.kind = "RateLimited"
    \/ e.kind = "Http"
    \/ e.kind = "ProviderStatus" /\ e.code = TOO_MANY_REQUESTS
    \/ e.kind = "ProviderStatus" /\ e.code = BAD_GATEWAY
    \/ e.kind = "ProviderStatus" /\ e.code = SERVICE_UNAVAILABLE
    \/ e.kind = "ProviderStatus" /\ e.code = GATEWAY_TIMEOUT
    \/ e.kind = "ProviderStatus" /\ e.code = INTERNAL_SERVER_ERROR

\* faulty variant: every error lets the loop continue
ArmRetryable_any(p, e) == TRUE

\* the match on p
ArmRetryable(p, e) ==
    IF p = "OpenRouter" THEN OpenRouterArmRetryable(e) ELSE GroqArmRetryable(e)
CallKey(p, keys) ==
    IF p = "OpenRouter" THEN call_openrouter_key(keys) ELSE call_groq_key(keys)
CallStatus(p, code) ==
    IF p = "OpenRouter" THEN call_openrouter_status(code) ELSE call_groq_status(code)

\* faulty variant: only the first error of the call is kept
RecordErr_keepFirst(last, e) == IF last.tag = "None" THEN e ELSE last

\* last_err = Some(e)
RecordErr(last, e) == e

\* faulty variant: the loop's exit reports the generic error
LoopExit_generic(last) == ErrNoProviders

\* Err(last_err.unwrap_or(ExtractError::NoProviders))
LoopExit(last) == IF last.tag = "None" THEN ErrNoProviders ELSE last

\* the message contents a provider may generate
Contents == { <<"1", ":", "2", "3", ".", "4", "5", "6">>,
              <<" ", "N", "u", "l", "l">>,
              <<"t", "=", "0", ":", "0", "5", ".", "2", "5", "0", "!">> }

\* how reading and decoding the body of a success response may end
BodyFailures == {"body timeout", "body connection reset", "malformed json"}

\* one entry of answers
Answer(pos, net, status, body, content) ==
    [pos |-> pos, net |-> net, status |-> status, body |-> body, content |-> content]

\* faulty variant: the default is taken although a choice is present
CallText_default(p, choices) == <<>>

\* parsed.choices.get(0).map(|c| c.message.content.trim()).unwrap_or_default()
call_openrouter_text(choices) == IF choices = <<>> THEN <<>> ELSE Trim(choices[1])
call_groq_text(choices) == IF choices = <<>> THEN <<>> ELSE Trim(choices[1])
CallText(p, choices) ==
    IF p = "OpenRouter" THEN call_openrouter_text(choices) ELSE call_groq_text(choices)

\* resp.json().await.map_err(|e| ProviderDecode(.., e.to_string()))
call_openrouter_decode(failure) == Err("ProviderDecode", "openrouter", 0, failure, <<>>)
call_groq_decode(failure) == Err("ProviderDecode", "groq", 0, failure, <<>>)
CallDecode(p, failure) ==
    IF p = "OpenRouter" THEN call_openrouter_decode(failure) ELSE call_groq_decode(failure)

\* how prepare_image_data_url may end for the given bytes
PrepareOutcomes == {"Ok", "ImageDecode", "ImageTooLarge"}

\* faulty variant: the next call starts while the previous request is in flight
AwaitDone_raced == pc \in {"loop", "sending"}

\* the next call_* starts only once the previous .await has returned
AwaitDone == pc = "loop"

\* the Err(e) branch of a provider arm: record, then continue or break; a break
\* and the end of the for loop both reach the final Err(last_err.unwrap_or(..))
ArmErr(p, e) ==
    /\ last_err' = RecordErr(last_err, e)
    /\ IF ArmRetryable(p, e) /\ idx < Len(providers)
       THEN /\ idx' = idx + 1
            /\ pc' = "loop"
            /\ result' = result
       ELSE /\ idx' = idx
            /\ pc' = "done"
            /\ result' = LoopExit(last_err')

FoIdle ==
    /\ env_PROVIDER_ORDER = [set |-> FALSE, val |-> <<>>]
    /\ env_keys = {}
    /\ pc = "idle"
    /\ providers = <<>>
    /\ idx = 0
    /\ last_err = NoErr
    /\ result = Pending
    /\ sent = <<>>
    /\ inflight = {}
    /\ answers = <<>>

PlIdle ==
    /\ p_pc = "idle"
    /\ p_input = [decodable |-> TRUE, failing |-> {}]
    /\ p_debug = FALSE
    /\ p_env_DEBUG_FOLDER = FALSE
    /\ p_i = 0
    /\ p_data = [variant |-> "None", term |-> <<>>]
    /\ p_calls = <<>>
    /\ p_files = {}
    /\ p_result = [tag |-> "Pending", step |-> "", cause |-> "", value |-> <<>>]
    /\ p_failed = -1

PtIdle ==
    /\ t_pc = "idle"
    /\ t_text = <<>>
    /\ t_parsed = Pending
    /\ t_post = Pending
    /\ t_str = <<>>

CdIdle ==
    /\ c_pc = "idle"
    /\ c_dim = <<1, 1>>
    /\ c_closed = {}
    /\ c_order = <<>>
    /\ c_result = [ok |-> FALSE, cause |-> "", rect |-> <<>>]

DuIdle ==
    /\ d_pc = "idle"
    /\ d_input = [decodable |-> TRUE, dim |-> <<1, 1>>, alpha |-> FALSE]
    /\ d_current = <<1, 1>>
    /\ d_prefer_png = FALSE
    /\ d_side_cap = 0
    /\ d_jpeg_quality = 0
    /\ d_round = 0
    /\ d_attempts = <<>>
    /\ d_result = [tag |-> "Pending", kind |-> "", mime |-> "", b64 |-> 0, dim |-> <<0, 0>>]

ShIdle ==
    /\ s_pc = "idle"
    /\ s_input = [dim |-> <<1, 1>>, card |-> <<>>]
    /\ s_i = 0
    /\ s_data = [variant |-> "None", dim |-> <<0, 0>>, len |-> 0]
    /\ s_result = [tag |-> "Pending", step |-> ""]

PyIdle ==
    /\ y_pc = <<>>
    /\ y_lock = 0
    /\ y_rows = <<>>
    /\ y_outcome = <<>>

OcIdle ==
    /\ o_pc = "idle"
    /\ o_msg = [author |-> 0, id |-> 0, bot_id |-> 0, timestamp |-> 0, utc_offset |-> 0, prior |-> 0]
    /\ o_players = <<>>
    /\ o_edits = 0
    /\ o_time = [ok |-> FALSE, ms |-> 0]
    /\ o_player = [some |-> FALSE, rownum |-> 0, user_id |-> 0, current_track |-> [some |-> FALSE, name |-> <<>>]]
    /\ o_records = <<>>
    /\ o_outcome = [tag |-> "Pending", rownum |-> 0]

StIdle ==
    /\ e_record = [rownum |-> 0]
    /\ e_player = [rownum |-> 0]
    /\ e_sheet = <<>>
    /\ e_last = [setter |-> "", ok |-> TRUE]

\* the subsystems a run does not involve stay as constructed
notFoIdle == PlIdle /\ PtIdle /\ CdIdle /\ DuIdle /\ ShIdle /\ PyIdle /\ OcIdle /\ StIdle
notPlIdle == FoIdle /\ PtIdle /\ CdIdle /\ DuIdle /\ ShIdle /\ PyIdle /\ OcIdle /\ StIdle
notPtIdle == FoIdle /\ PlIdle /\ CdIdle /\ DuIdle /\ ShIdle /\ PyIdle /\ OcIdle /\ StIdle
notCdIdle == FoIdle /\ PlIdle /\ PtIdle /\ DuIdle /\ ShIdle /\ PyIdle /\ OcIdle /\ StIdle
notDuIdle == FoIdle /\ PlIdle /\ PtIdle /\ CdIdle /\ ShIdle /\ PyIdle /\ OcIdle /\ StIdle
notShIdle == FoIdle /\ PlIdle /\ PtIdle /\ CdIdle /\ DuIdle /\ PyIdle /\ OcIdle /\ StIdle
notPyIdle == FoIdle /\ PlIdle /\ PtIdle /\ CdIdle /\ DuIdle /\ ShIdle /\ OcIdle /\ StIdle
notOcIdle == FoIdle /\ PlIdle /\ PtIdle /\ CdIdle /\ DuIdle /\ ShIdle /\ PyIdle /\ StIdle
notStIdle == FoIdle /\ PlIdle /\ PtIdle /\ CdIdle /\ DuIdle /\ ShIdle /\ PyIdle /\ OcIdle

\* the environment and the state at the call of extract_time_with_model
Init ==
    /\ \E n \in 0..MaxProviders : \E toks \in [1..n -> RawTokens] : \E isset \in BOOLEAN :
          env_PROVIDER_ORDER =
              [set |-> isset, val |-> IF isset THEN Join(toks, ",") ELSE <<>>]
    /\ env_keys \in SUBSET Provider
    /\ pc = "start"
    /\ providers = <<>>
    /\ idx = 0
    /\ last_err = NoErr
    /\ result = Pending
    /\ sent = <<>>
    /\ inflight = {}
    /\ answers = <<>>
    /\ notFoIdle

\* lines 126-138: provider list, payload, client
ExtractStart ==
    /\ pc = "start"
    /\ providers' = read_provider_order(env_PROVIDER_ORDER)
    /\ IF providers' = <<>>
       THEN /\ result' = ErrNoProviders
            /\ pc' = "done"
            /\ idx' = idx
       ELSE \E prep \in PrepareOutcomes : \E built \in BOOLEAN :
               IF prep # "Ok"
               THEN /\ result' = Err(prep, "", 0, "", <<>>)
                    /\ pc' = "done"
                    /\ idx' = idx
               ELSE IF ~built
               THEN /\ result' = Err("Http", "", 0, "client build", <<>>)
                    /\ pc' = "done"
                    /\ idx' = idx
               ELSE /\ result' = result
                    /\ pc' = "loop"
                    /\ idx' = 1
    /\ UNCHANGED <<env_PROVIDER_ORDER, env_keys, last_err, sent, inflight, answers>>
    /\ UNCHANGED notFoVars

\* call_openrouter / call_groq up to req.send(): the key, then the request
CallBegin ==
    /\ AwaitDone
    /\ idx >= 1 /\ idx <= Len(providers)
    /\ LET p == providers[idx]
           e == CallKey(p, env_keys)
       IN IF e.tag = "Err"
          THEN /\ ArmErr(p, e)
               /\ answers' = Append(answers, Answer(idx, "not sent", 0, "", <<>>))
               /\ UNCHANGED <<sent, inflight>>
          ELSE /\ sent' = Append(sent, idx)
               /\ inflight' = inflight \cup {idx}
               /\ pc' = "sending"
               /\ UNCHANGED <<idx, last_err, result, answers>>
    /\ UNCHANGED <<env_PROVIDER_ORDER, env_keys, providers>>
    /\ UNCHANGED notFoVars

\* req.send().await returns: a reqwest error, or a response with a status
SendCompletes ==
    /\ pc = "sending"
    /\ LET p == providers[idx]
       IN \/ \E failure \in {"connect error", "timeout"} :
                /\ ArmErr(p, Err("Http", "", 0, failure, <<>>))
                /\ answers' = Append(answers, Answer(idx, failure, 0, "", <<>>))
                /\ inflight' = inflight \ {idx}
          \/ \E code \in StatusCodes :
                LET e == CallStatus(p, code)
                IN IF e.tag = "Err"
                   THEN /\ ArmErr(p, e)
                        /\ answers' = Append(answers, Answer(idx, "ok", code, "", <<>>))
                        /\ inflight' = inflight \ {idx}
                   ELSE /\ pc' = "body"
                        /\ answers' = Append(answers, Answer(idx, "ok", code, "reading", <<>>))
                        /\ UNCHANGED <<idx, last_err, result, inflight>>
    /\ UNCHANGED <<env_PROVIDER_ORDER, env_keys, providers, sent>>
    /\ UNCHANGED notFoVars

\* resp.json().await returns: a failure to read or decode, or the parsed choices
BodyCompletes ==
    /\ pc = "body"
    /\ inflight' = inflight \ {idx}
    /\ LET p == providers[idx]
           n == Len(answers)
       IN \/ \E failure \in BodyFailures :
                /\ ArmErr(p, CallDecode(p, failure))
                /\ answers' = [answers EXCEPT ![n].body = failure]
          \/ \E choices \in {<<>>} \cup {<<c>> : c \in Contents} :
                /\ result' = post_process_to_duration(CallText(p, choices))
                /\ pc' = "done"
                /\ answers' = [answers EXCEPT ![n].body = "decoded",
                                              ![n].content = choices]
                /\ UNCHANGED <<idx, last_err>>
    /\ UNCHANGED <<env_PROVIDER_ORDER, env_keys, providers, sent>>
    /\ UNCHANGED notFoVars

Next == ExtractStart \/ CallBegin \/ SendCompletes \/ BodyCompletes

Spec == Init /\ [][Next]_vars

-----------------------------------------------------------------------------
(* Step pipeline: Step::run and run_pipeline_from_bytes (src/src/ocr.rs) *)

\* a PipelineData value: its variant and, for its content, the list of
\* transformations applied to the decoded original image
Data(variant, term) == [variant |-> variant, term |-> term]

\* Result<PipelineData> of process and of run
StepOk(data) == [ok |-> TRUE, data |-> data, step |-> "", cause |-> ""]
StepErr(step, cause) == [ok |-> FALSE, data |-> Data("None", <<>>), step |-> step, cause |-> cause]

\* the value run_pipeline_from_bytes returns
RunOk(text) == [tag |-> "Ok", step |-> "", cause |-> "", value |-> text]
RunErr(step, cause) == [tag |-> "Err", step |-> step, cause |-> cause, value |-> <<>>]

\* let steps: Vec<Box<dyn Step>> = vec![..]
Steps ==
    << [ty |-> "LoadFromBuffer", morph |-> "", radius |-> 0],
       [ty |-> "YellowMask", morph |-> "", radius |-> 0],
       [ty |-> "Morph", morph |-> "Open", radius |-> 3],
       [ty |-> "Morph", morph |-> "Close", radius |-> 3],
       [ty |-> "Morph", morph |-> "Open", radius |-> 3],
       [ty |-> "Morph", morph |-> "Close", radius |-> 7],
       [ty |-> "FindCardCrop", morph |-> "", radius |-> 0],
       [ty |-> "GrayscaleThresh", morph |-> "", radius |-> 0],
       [ty |-> "Morph", morph |-> "Open", radius |-> 3],
       [ty |-> "Morph", morph |-> "Close", radius |-> 3],
       [ty |-> "CropRegion", morph |-> "", radius |-> 0],
       [ty |-> "EncodePng", morph |-> "", radius |-> 0],
       [ty |-> "OcrText", morph |-> "", radius |-> 0] >>

\* the step types whose process can fail on data of the variant it expects
FallibleSteps == {"FindCardCrop", "EncodePng", "OcrText"}

\* Step::name of each implementation
Step_name(st) ==
    CASE st.ty = "LoadFromBuffer" -> "load"
      [] st.ty = "YellowMask" -> "mask_yellow"
      [] st.ty = "Morph" -> (IF st.morph = "Open" THEN "open" ELSE "close")
      [] st.ty = "FindCardCrop" -> "find_card"
      [] st.ty = "GrayscaleThresh" -> "gray_thresh"
      [] st.ty = "CropRegion" -> "crop_region"
      [] st.ty = "EncodePng" -> "encode_png"
      [] st.ty = "OcrText" -> "ocr"

\* PipelineData::into_rgb8 / into_luma8 / into_bytes / into_text: "" stands for Ok
into_rgb8(data) == IF data.variant = "Rgb8" THEN "" ELSE "Expected RGB image"
into_luma8(data) == IF data.variant = "Luma8" THEN "" ELSE "Expected Luma image"
into_bytes(data) == IF data.variant = "PngBytes" THEN "" ELSE "Expected PNG bytes"
into_text(data) == IF data.variant = "Text" THEN "" ELSE "Expected text"

\* LoadFromBuffer::process: ignores its input, returns the original image
LoadFromBuffer_process(data) == StepOk(Data("Rgb8", <<"original">>))

\* YellowMask::process
YellowMask_process(data) ==
    IF into_rgb8(data) # "" THEN StepErr("", into_rgb8(data))
    ELSE StepOk(Data("Luma8", Append(data.term, "mask_yellow")))

\* the transformation a Morph step applies: its kind and radius
MorphTag(st) ==
    CASE st.morph = "Open" /\ st.radius = 3 -> "open r3"
      [] st.morph = "Close" /\ st.radius = 3 -> "close r3"
      [] st.morph = "Close" /\ st.radius = 7 -> "close r7"

\* Morph::process
Morph_process(st, data) ==
    IF into_luma8(data) # "" THEN StepErr("", into_luma8(data))
    ELSE StepOk(Data("Luma8", Append(data.term, MorphTag(st))))

\* FindCardCrop::process: fails when no component passes the filter
FindCardCrop_process(data, input) ==
    IF into_luma8(data) # "" THEN StepErr("", into_luma8(data))
    ELSE IF "FindCardCrop" \in input.failing THEN StepErr("", "no card found")
    ELSE StepOk(Data("Rgb8", Append(data.term, "find_card")))

\* faulty variant: the thresholded image is handed on as an RGB image
GrayscaleThresh_process_rgb(data) ==
    IF into_rgb8(data) # "" THEN StepErr("", into_rgb8(data))
    ELSE StepOk(Data("Rgb8", Append(data.term, "gray_thresh")))

\* GrayscaleThresh::process
GrayscaleThresh_process(data) ==
    IF into_rgb8(data) # "" THEN StepErr("", into_rgb8(data))
    ELSE StepOk(Data("Luma8", Append(data.term, "gray_thresh")))

\* CropRegion::process
CropRegion_process(data) ==
    IF into_luma8(data) # "" THEN StepErr("", into_luma8(data))
    ELSE StepOk(Data("Luma8", Append(data.term, "crop_region")))

\* EncodePng::process: write_image(..)? may fail
EncodePng_process(data, input) ==
    IF into_luma8(data) # "" THEN StepErr("", into_luma8(data))
    ELSE IF "EncodePng" \in input.failing THEN StepErr("", "png encoding error")
    ELSE StepOk(Data("PngBytes", Append(data.term, "encode_png")))

\* OcrText::process: each LepTess call may fail
OcrText_process(data, input) ==
    IF into_bytes(data) # "" THEN StepErr("", into_bytes(data))
    ELSE IF "OcrText" \in input.failing THEN StepErr("", "tesseract error")
    ELSE StepOk(Data("Text", Append(data.term, "ocr")))

\* dyn Step dispatch of process
Step_process(st, data, input) ==
    CASE st.ty = "LoadFromBuffer" -> LoadFromBuffer_process(data)
      [] st.ty = "YellowMask" -> YellowMask_process(data)
      [] st.ty = "Morph" -> Morph_process(st, data)
      [] st.ty = "FindCardCrop" -> FindCardCrop_process(data, input)
      [] st.ty = "GrayscaleThresh" -> GrayscaleThresh_process(data)
      [] st.ty = "CropRegion" -> CropRegion_process(data)
      [] st.ty = "EncodePng" -> EncodePng_process(data, input)
      [] st.ty = "OcrText" -> OcrText_process(data, input)

\* Step::run. folder: DEBUG_FOLDER is set; dirOk, saveOk: whether create_dir_all
\* and buf.save succeed when they are called
Step_run(st, data, input, debug, folder, dirOk, saveOk) ==
    LET out == Step_process(st, data, input)
    IN IF ~out.ok THEN StepErr(Step_name(st), out.cause)
       ELSE IF debug /\ folder /\ ~dirOk THEN StepErr("", "create_dir_all: io error")
       ELSE IF debug /\ folder /\ out.data.variant \in {"Rgb8", "Luma8"} /\ ~saveOk
       THEN StepErr("", "save: image error")
       ELSE out

\* the debug artifact Step::run writes, if any: {:02}_{name}.png
Step_run_file(st, out, debug, folder, index) ==
    IF debug /\ folder /\ out.ok /\ out.data.variant \in {"Rgb8", "Luma8"}
    THEN {<<index, Step_name(st)>>}
    ELSE {}

\* faulty variant: the loop skips the step after a successful one
NextIndex_skip(i) == i + 2

\* for (i, step) in steps.into_iter().enumerate()
NextIndex(i) == i + 1

\* Ok(data.into_text().map_err(..)?)
FinalResult(data) ==
    IF into_text(data) # "" THEN RunErr("", into_text(data)) ELSE RunOk(data.term)

PlInit ==
    /\ p_pc = "start"
    /\ p_input \in [decodable : BOOLEAN, failing : SUBSET FallibleSteps]
    /\ p_debug \in BOOLEAN
    /\ p_env_DEBUG_FOLDER \in BOOLEAN
    /\ p_i = 0
    /\ p_data = Data("None", <<>>)
    /\ p_calls = <<>>
    /\ p_files = {}
    /\ p_result = [tag |-> "Pending", step |-> "", cause |-> "", value |-> <<>>]
    /\ p_failed = -1
    /\ notPlIdle

\* lines 99-102, 144: decode the bytes, start from the original image
PipelineStart ==
    /\ p_pc = "start"
    /\ IF ~p_input.decodable
       THEN /\ p_result' = RunErr("", "failed to load image from bytes")
            /\ p_pc' = "done"
            /\ p_data' = p_data
       ELSE /\ p_data' = Data("Rgb8", <<"original">>)
            /\ p_pc' = "steps"
            /\ p_result' = p_result
    /\ UNCHANGED <<p_input, p_debug, p_env_DEBUG_FOLDER, p_i, p_calls, p_files, p_failed>>
    /\ UNCHANGED notPlVars

\* one iteration of the loop at lines 145-147; after the last step, lines 150-152
StepRun ==
    /\ p_pc = "steps"
    /\ p_i < Len(Steps)
    /\ \E dirOk \in BOOLEAN : \E saveOk \in BOOLEAN :
          LET st == Steps[p_i + 1]
              r == Step_run(st, p_data, p_input, p_debug, p_env_DEBUG_FOLDER, dirOk, saveOk)
              out == Step_process(st, p_data, p_input)
          IN /\ p_calls' = Append(p_calls, [index |-> p_i, input |-> p_data, output |-> out.data])
             /\ p_files' = IF p_debug /\ p_env_DEBUG_FOLDER /\ dirOk /\ saveOk
                           THEN p_files \cup Step_run_file(st, out, p_debug, p_env_DEBUG_FOLDER, p_i)
                           ELSE p_files
             /\ IF ~r.ok
                THEN /\ p_result' = RunErr(r.step, r.cause)
                     /\ p_failed' = p_i
                     /\ p_pc' = "done"
                     /\ UNCHANGED <<p_i, p_data>>
                ELSE /\ p_data' = r.data
                     /\ p_i' = NextIndex(p_i)
                     /\ p_failed' = p_failed
                     /\ IF p_i' >= Len(Steps)
                        THEN p_pc' = "done" /\ p_result' = FinalResult(p_data')
                        ELSE p_pc' = "steps" /\ p_result' = p_result
    /\ UNCHANGED <<p_input, p_debug, p_env_DEBUG_FOLDER>>
    /\ UNCHANGED notPlVars

PlNext == PipelineStart \/ StepRun

SpecPipeline == PlInit /\ [][PlNext]_vars

-----------------------------------------------------------------------------
(* Time texts: parse_duration on a typed time (update_time.rs:98),          *)
(* post_process_to_duration on a provider's text (src/src/ocr/mod.rs:143,   *)
(* 168), duration_to_string on a stored Duration                            *)

\* digits a minute field is written with in the sampled texts
MinuteChars == {"0", "1", "2", "U0663"}

RECURSIVE DigitStrings(_)
DigitStrings(n) ==
    IF n = 0 THEN {<<>>}
    ELSE {Append(s, c) : s \in DigitStrings(n - 1), c \in MinuteChars}

MinuteTexts == UNION {DigitStrings(n) : n \in 1..MaxMinuteDigits}
SecondTexts == {<<"0", "0">>, <<"0", "5">>, <<"2", "3">>, <<"3", "4">>, <<"5", "9">>,
                <<"6", "0">>, <<"3">>}
MilliTexts == {<<"0", "0", "0">>, <<"2", "5", "0">>, <<"4", "5", "6">>, <<"5", "6", "7">>,
               <<"4", "5">>}
Prefixes == {<<>>, <<" ">>, <<"x">>, <<"t", " ">>}
Suffixes == {<<>>, <<"LF">>, <<"x">>, <<",">>}

\* texts built around one time-like field
TimeTexts ==
    {pre \o m \o <<":">> \o sec \o <<".">> \o ms \o suf :
        pre \in Prefixes, m \in MinuteTexts, sec \in SecondTexts, ms \in MilliTexts,
        suf \in Suffixes}

\* the sentinel in several spellings, and texts without any time
NullTexts == {<<"n", "u", "l", "l">>, <<"N", "U", "L", "L">>, <<"N", "u", "l", "l">>,
              <<" ", "n", "u", "L", "l", "LF">>}
ProseTexts == {<<>>, <<" ">>, <<"n", "o", " ", "t", "i", "m", "e">>,
               <<"n", "u", "l", "l", ".">>, <<"n", "u", "l", "l", " ", "x">>,
               <<"1", ":", "2", "3">>,
               <<"Y", "o", "u", "r", " ", "t", "i", "m", "e", " ", "w", "a", "s", " ",
                 "1", ":", "2", "3", ".", "4", "5", "6", ",", " ",
                 "c", "o", "n", "g", "r", "a", "t", "s", "!">>,
               <<"1", ":", "0", "0", ".", "0", "0", "0", " ", "t", "h", "e", "n", " ",
                 "2", ":", "0", "0", ".", "0", "0", "0">>}

InputTexts == TimeTexts \cup NullTexts \cup ProseTexts

PtInit ==
    /\ t_pc = "start"
    /\ t_text \in InputTexts
    /\ t_parsed = Pending
    /\ t_post = Pending
    /\ t_str = <<>>
    /\ notPtIdle

\* update_time.rs:98: parse_duration(duration_str) on the text as typed
ParseDuration ==
    /\ t_pc = "start"
    /\ t_parsed' = parse_duration(t_text)
    /\ t_pc' = "parsed"
    /\ UNCHANGED <<t_text, t_post, t_str>>
    /\ UNCHANGED notPtVars

\* duration_to_string on the Duration that parse_duration returned
DurationToString ==
    /\ t_pc = "parsed"
    /\ t_parsed.tag = "Ok"
    /\ t_str' = duration_to_string(t_parsed.ms)
    /\ t_pc' = "rendered"
    /\ UNCHANGED <<t_text, t_parsed, t_post>>
    /\ UNCHANGED notPtVars

\* extract_time_with_model: post_process_to_duration(&text) on a provider's text
PostProcess ==
    /\ t_pc = "start"
    /\ t_post' = post_process_to_duration(t_text)
    /\ t_pc' = "post"
    /\ UNCHANGED <<t_text, t_parsed, t_str>>
    /\ UNCHANGED notPtVars

PtNext == ParseDuration \/ DurationToString \/ PostProcess

SpecParse == PtInit /\ [][PtNext]_vars

-----------------------------------------------------------------------------
(* Card finder: FindCardCrop::process on a cleaned mask (src/src/ocr.rs:230-269) *)

\* the pixel coordinates of a lw x lh image
PixelsOf(dim) == (0..(dim[1] - 1)) \X (0..(dim[2] - 1))

\* the mask dimensions tried: every lw x lh of at most MaxPixels pixels
MaskDims == {d \in (1..MaxPixels) \X (1..MaxPixels) : d[1] * d[2] <= MaxPixels}

\* Connectivity::Eight: the pixels touch by a side or a corner
Adjacent8(p, q) ==
    /\ p # q
    /\ p[1] - q[1] \in {-1, 0, 1}
    /\ p[2] - q[2] \in {-1, 0, 1}

\* the foreground pixels connected to those of c
RECURSIVE Grow(_, _)
Grow(c, fg) ==
    LET more == {q \in fg \ c : \E p \in c : Adjacent8(p, q)}
    IN IF more = {} THEN c ELSE Grow(c \cup more, fg)

\* position of a pixel in the scan for y in 0..lh { for x in 0..lw }
ScanIndex(p, dim) == p[2] * dim[1] + p[1]

FirstScanned(c, dim) ==
    CHOOSE p \in c : \A q \in c : ScanIndex(p, dim) <= ScanIndex(q, dim)

\* connected_components(&closed, Connectivity::Eight, Luma([0])): the label of
\* every foreground pixel, components numbered from 1 as the scan meets them;
\* background pixels have label 0 and are left out
connected_components(closed, dim) ==
    LET comps == {Grow({p}, closed) : p \in closed}
        number(c) == 1 + Cardinality({d \in comps :
                         ScanIndex(FirstScanned(d, dim), dim) < ScanIndex(FirstScanned(c, dim), dim)})
    IN [p \in closed |-> number(Grow({p}, closed))]

\* the loop at lines 234-247: label |-> (minx, miny, maxx, maxy)
extents(labels) ==
    LET labs == {labels[p] : p \in DOMAIN labels}
        px(lab) == {p \in DOMAIN labels : labels[p] = lab}
        Min(S) == CHOOSE a \in S : \A b \in S : a <= b
        Max(S) == CHOOSE a \in S : \A b \in S : a >= b
    IN [lab \in labs |->
           <<Min({p[1] : p \in px(lab)}), Min({p[2] : p \in px(lab)}),
             Max({p[1] : p \in px(lab)}), Max({p[2] : p \in px(lab)})>>]

\* Rect::at(minx, miny).of_size(maxx - minx + 1, maxy - miny + 1)
RectOf(e) == [left |-> e[1], top |-> e[2], width |-> e[3] - e[1] + 1, height |-> e[4] - e[2] + 1]

\* faulty variant: every bounding box passes the filter
InWindow_any(r) == r.width >= 1

\* the filter at lines 254-257: width / height in 3.0..5.0 (half-open)
InWindow(r) == 3 * r.height <= r.width /\ r.width < 5 * r.height

\* the key of max_by_key: r.width() * r.height()
Area(r) == r.width * r.height

\* Iterator::filter over a sequence
RECURSIVE FilterWindow(_)
FilterWindow(rs) ==
    IF rs = <<>> THEN <<>>
    ELSE IF InWindow(Head(rs)) THEN <<Head(rs)>> \o FilterWindow(Tail(rs))
    ELSE FilterWindow(Tail(rs))

\* Iterator::max_by_key: of several maximal elements the last one is returned;
\* <<>> stands for None
RECURSIVE MaxByKeyFrom(_, _)
MaxByKeyFrom(best, rs) ==
    IF rs = <<>> THEN best
    ELSE IF Area(Head(rs)) >= Area(best) THEN MaxByKeyFrom(Head(rs), Tail(rs))
    ELSE MaxByKeyFrom(best, Tail(rs))

max_by_key(rs) == IF rs = <<>> THEN <<>> ELSE <<MaxByKeyFrom(Head(rs), Tail(rs))>>

\* the orders in which a HashMap may yield its entries: any order of the keys
RECURSIVE Orders(_)
Orders(S) ==
    IF S = {} THEN {<<>>}
    ELSE UNION {{<<k>> \o o : o \in Orders(S \ {k})} : k \in S}

\* lines 248-258: extents.values().map(..).filter(..).max_by_key(..), the
\* values yielded in the given order of their labels
card_rect(ext, order) ==
    max_by_key(FilterWindow([i \in 1..Len(order) |-> RectOf(ext[order[i]])]))

\* faulty variant: without a candidate the whole image is cropped
ok_or_whole(opt, dim) ==
    IF opt = <<>>
    THEN [ok |-> TRUE, cause |-> "",
          rect |-> <<[left |-> 0, top |-> 0, width |-> dim[1], height |-> dim[2]]>>]
    ELSE [ok |-> TRUE, cause |-> "", rect |-> opt]

\* lines 259-268: .ok_or(anyhow!("no card found"))? and the crop of the original
ok_or(opt, dim) ==
    IF opt = <<>>
    THEN [ok |-> FALSE, cause |-> "no card found", rect |-> <<>>]
    ELSE [ok |-> TRUE, cause |-> "", rect |-> opt]

\* FindCardCrop::process on the mask, the map yielding its values in that order
FindCardCrop_find(closed, dim, order) ==
    ok_or(card_rect(extents(connected_components(closed, dim)), order), dim)

LabelsOf(closed, dim) ==
    {connected_components(closed, dim)[p] : p \in closed}

CdInit ==
    /\ c_pc = "start"
    /\ c_dim \in MaskDims
    /\ c_closed \in SUBSET PixelsOf(c_dim)
    /\ c_order = <<>>
    /\ c_result = [ok |-> FALSE, cause |-> "", rect |-> <<>>]
    /\ notCdIdle

\* FindCardCrop::process (lines 230-269)
FindCard ==
    /\ c_pc = "start"
    /\ \E order \in Orders(LabelsOf(c_closed, c_dim)) :
          /\ c_order' = order
          /\ c_result' = FindCardCrop_find(c_closed, c_dim, order)
    /\ c_pc' = "done"
    /\ UNCHANGED <<c_dim, c_closed>>
    /\ UNCHANGED notCdVars

CdNext == FindCard

SpecFindCard == CdInit /\ [][CdNext]_vars

-----------------------------------------------------------------------------
(* Payload negotiator: prepare_image_data_url (src/src/ocr/mod.rs:342-479) *)

INITIAL_MAX_SIDE == 1280
SAFE_BASE64_MAX == 3900000
MIN_SIDE == 512
\* let mut jpeg_quality = 85u8;  if jpeg_quality > 55;  saturating_sub(10)
InitialQuality == 85
QualityFloor == 55
QualityStep == 10
\* for _ in 0..10
Rounds == 10

\* f32 product or quotient a * b / c rounded to the nearest integer
RoundDiv(a, b, c) == (2 * a * b + c) \div (2 * c)

Max2(a, b) == IF a >= b THEN a ELSE b

\* DynamicImage::resize(nw, nh, _): the largest size of the same aspect ratio
\* that fits in nw x nh
resize(dim, nw, nh) ==
    IF nw * dim[2] <= nh * dim[1]
    THEN <<Max2(nw, 1), Max2(RoundDiv(dim[2], nw, dim[1]), 1)>>
    ELSE <<Max2(RoundDiv(dim[1], nh, dim[2]), 1), Max2(nh, 1)>>

\* faulty variant: the image is scaled to max_side even when it is smaller
resize_long_side_always(dim, max_side) ==
    LET long == Max2(dim[1], dim[2])
    IN resize(dim, Max2(RoundDiv(dim[1], max_side, long), 1),
                   Max2(RoundDiv(dim[2], max_side, long), 1))

\* resize_long_side (lines 427-437) on the dimensions of the image
resize_long_side(dim, max_side) ==
    LET long == Max2(dim[1], dim[2])
    IN IF long <= max_side THEN dim
       ELSE resize(dim, Max2(RoundDiv(dim[1], max_side, long), 1),
                        Max2(RoundDiv(dim[2], max_side, long), 1))

\* faulty variant: the estimate rounds down
estimate_base64_len_floor(raw_bytes) == (raw_bytes \div 3) * 4

\* estimate_base64_len (lines 475-479)
estimate_base64_len(raw_bytes) == ((raw_bytes + 2) \div 3) * 4

\* length of base64::engine::general_purpose::STANDARD.encode(bytes): four
\* characters for every three bytes, the last group padded with '='
base64_encode_len(n) == (n \div 3) * 4 + (IF n % 3 = 0 THEN 0 ELSE 4)

\* has_alpha(&img), the value of prefer_png at line 347
has_alpha(input) == input.alpha

\* byte lengths an encoder may produce, and -1 for an encoder error
EncodedSizes == {1000, 2924999, 2925000, 2925001, 5000000}
EncodeOutcomes == EncodedSizes \cup {-1}

\* the input images tried
InputDims == {<<1, 1>>, <<640, 480>>, <<1280, 720>>, <<720, 1280>>, <<1920, 1080>>,
              <<4000, 3000>>, <<300, 2000>>}

\* the encodings one iteration makes, in order (lines 365-398): the preferred
\* format first, each one [fmt, raw] with raw = -1 when the encoder failed
RoundOrder(prefer_png, png, jpg) ==
    IF prefer_png THEN <<[fmt |-> "png", raw |-> png], [fmt |-> "jpeg", raw |-> jpg]>>
    ELSE <<[fmt |-> "jpeg", raw |-> jpg], [fmt |-> "png", raw |-> png]>>

\* if b64_len <= SAFE_BASE64_MAX
Fits(e) == e.raw >= 0 /\ estimate_base64_len(e.raw) <= SAFE_BASE64_MAX

\* the encodings made before the iteration returns or gives up
Attempts(es) ==
    IF es = <<>> THEN <<>>
    ELSE IF Fits(es[1]) THEN <<es[1]>>
    ELSE IF Len(es) >= 2 /\ Fits(es[2]) THEN <<es[1], es[2]>>
    ELSE es

\* candidates: the encodings that succeeded and did not fit, with b64_len
RECURSIVE CandidatesOf(_)
CandidatesOf(es) ==
    IF es = <<>> THEN <<>>
    ELSE IF Head(es).raw >= 0
         THEN <<[fmt |-> Head(es).fmt, len |-> estimate_base64_len(Head(es).raw)]>>
                  \o CandidatesOf(Tail(es))
         ELSE CandidatesOf(Tail(es))

\* lines 414-421: candidates.sort_by_key(len) is stable; the first decides
NextPreferPng(cands, prefer_png) ==
    IF cands = <<>> THEN prefer_png
    ELSE IF Len(cands) = 1 THEN cands[1].fmt = "png"
    ELSE IF cands[2].len < cands[1].len THEN cands[2].fmt = "png"
    ELSE cands[1].fmt = "png"

\* faulty variant: the quality is left as it is
saturating_sub_keep(a, b) == a

\* u8::saturating_sub
saturating_sub(a, b) == IF a >= b THEN a - b ELSE 0

\* ((side_cap as f32) * 0.85) as u32
NextSideCap(side_cap) == (side_cap * 85) \div 100

DataUrl(e, dim) ==
    [tag |-> "Ok", kind |-> "", mime |-> "image/" \o e.fmt,
     b64 |-> base64_encode_len(e.raw), dim |-> dim]
\* faulty variant: every error is reported as a decode error
DuErr_decode(kind) == [tag |-> "Err", kind |-> "ImageDecode", mime |-> "", b64 |-> 0, dim |-> <<0, 0>>]

\* Err(ExtractError::ImageDecode(..)) at line 344, Err(ExtractError::ImageTooLarge) at line 424
DuErr(kind) == [tag |-> "Err", kind |-> kind, mime |-> "", b64 |-> 0, dim |-> <<0, 0>>]

DuInit ==
    /\ d_pc = "start"
    /\ d_input \in [decodable : BOOLEAN, dim : InputDims, alpha : BOOLEAN]
    /\ d_current = <<1, 1>>
    /\ d_prefer_png = FALSE
    /\ d_side_cap = 0
    /\ d_jpeg_quality = 0
    /\ d_round = 0
    /\ d_attempts = <<>>
    /\ d_result = [tag |-> "Pending", kind |-> "", mime |-> "", b64 |-> 0, dim |-> <<0, 0>>]
    /\ notDuIdle

\* lines 343-359: decode, initial downscale, loop variables
PrepareBegin ==
    /\ d_pc = "start"
    /\ IF ~d_input.decodable
       THEN /\ d_result' = DuErr("ImageDecode")
            /\ d_pc' = "done"
            /\ UNCHANGED <<d_current, d_prefer_png, d_side_cap, d_jpeg_quality>>
       ELSE /\ d_prefer_png' = has_alpha(d_input)
            /\ d_current' = resize_long_side(d_input.dim, INITIAL_MAX_SIDE)
            /\ d_side_cap' = INITIAL_MAX_SIDE
            /\ d_jpeg_quality' = InitialQuality
            /\ d_pc' = "loop"
            /\ d_result' = d_result
    /\ UNCHANGED <<d_input, d_round, d_attempts>>
    /\ UNCHANGED notDuVars

\* whether the for loop has another iteration after d_round' iterations
LoopContinues(round) == round < Rounds

\* one iteration of for _ in 0..10 (lines 361-422) and, when the loop ends,
\* line 424
PrepareRound ==
    /\ d_pc = "loop"
    /\ \E png \in EncodeOutcomes : \E jpg \in EncodeOutcomes :
          LET es == RoundOrder(d_prefer_png, png, jpg)
              made == Attempts(es)
              last == made[Len(made)]
              cap == NextSideCap(d_side_cap)
          IN /\ d_round' = d_round + 1
             /\ d_attempts' = made
             /\ IF Fits(last)
                THEN /\ d_result' = DataUrl(last, d_current)
                     /\ d_pc' = "done"
                     /\ UNCHANGED <<d_current, d_prefer_png, d_side_cap, d_jpeg_quality>>
                ELSE IF d_jpeg_quality > QualityFloor
                THEN /\ d_jpeg_quality' = saturating_sub(d_jpeg_quality, QualityStep)
                     /\ UNCHANGED <<d_current, d_prefer_png, d_side_cap>>
                     /\ IF LoopContinues(d_round')
                        THEN d_pc' = "loop" /\ d_result' = d_result
                        ELSE d_pc' = "done" /\ d_result' = DuErr("ImageTooLarge")
                ELSE /\ d_side_cap' = cap
                     /\ d_jpeg_quality' = d_jpeg_quality
                     /\ IF cap < MIN_SIDE
                        THEN /\ d_pc' = "done"
                             /\ d_result' = DuErr("ImageTooLarge")
                             /\ UNCHANGED <<d_current, d_prefer_png>>
                        ELSE /\ d_current' = resize_long_side(d_current, cap)
                             /\ d_prefer_png' = NextPreferPng(CandidatesOf(made), d_prefer_png)
                             /\ IF LoopContinues(d_round')
                                THEN d_pc' = "loop" /\ d_result' = d_result
                                ELSE d_pc' = "done" /\ d_result' = DuErr("ImageTooLarge")
    /\ UNCHANGED d_input
    /\ UNCHANGED notDuVars

DuNext == PrepareBegin \/ PrepareRound

SpecPrepare == DuInit /\ [][DuNext]_vars

\* the function is synchronous: once called, every iteration runs to its end
SpecPrepareRuns == SpecPrepare /\ WF_vars(DuNext)

-----------------------------------------------------------------------------
(* Image sizes through the step pipeline (src/src/ocr.rs:97-334): what each  *)
(* step does to the dimensions of the PipelineData it is given               *)

Shaped(variant, dim, len) == [variant |-> variant, dim |-> dim, len |-> len]

\* the decoded images tried
ImageDims == {<<40, 10>>, <<100, 50>>, <<320, 180>>}

\* heights of the box that FindCardCrop selects
CardHeights == {7, 10, 11, 12, 24, 50}

\* the boxes FindCardCrop can select in an image: width / height in 3.0..5.0,
\* inside the image; <<>> when no component passes the filter
CardsIn(dim) ==
    {<<>>} \cup {c \in {<<3 * h, h>> : h \in CardHeights} \cup {<<4 * h, h>> : h \in CardHeights} :
                   c[1] <= dim[1] /\ c[2] <= dim[2]}

Min2(a, b) == IF a <= b THEN a ELSE b

\* image::imageops::crop_imm(img, x, y, width, height): the view is clamped
\* to the image
crop_imm(dim, x, y, width, height) ==
    LET cx == Min2(x, dim[1])
        cy == Min2(y, dim[2])
    IN <<Min2(width, dim[1] - cx), Min2(height, dim[2] - cy)>>

\* CropRegion::process (lines 291-296) on the dimensions
CropRegion_dim(dim) ==
    crop_imm(dim, dim[1] \div 4, dim[2] \div 2, dim[1] \div 2, (dim[2] \div 12) * 5)

\* byte lengths of a PNG file: never less than signature, IHDR and IEND
PngLengths == {57, 4096}

\* Step::process of each step on the size of its input: [ok, data]; encOk and
\* ocrOk say whether the PNG encoder and Tesseract accept what they are given
Shape_process(st, data, input, pngLen, encOk, ocrOk) ==
    CASE st.ty = "LoadFromBuffer" -> [ok |-> TRUE, data |-> Shaped("Rgb8", input.dim, 0)]
      [] st.ty = "YellowMask" -> [ok |-> TRUE, data |-> Shaped("Luma8", data.dim, 0)]
      [] st.ty = "Morph" -> [ok |-> TRUE, data |-> Shaped("Luma8", data.dim, 0)]
      [] st.ty = "FindCardCrop" ->
            IF input.card = <<>> THEN [ok |-> FALSE, data |-> data]
            ELSE [ok |-> TRUE, data |-> Shaped("Rgb8", input.card, 0)]
      [] st.ty = "GrayscaleThresh" -> [ok |-> TRUE, data |-> Shaped("Luma8", data.dim, 0)]
      [] st.ty = "CropRegion" ->
            [ok |-> TRUE, data |-> Shaped("Luma8", CropRegion_dim(data.dim), 0)]
      [] st.ty = "EncodePng" ->
            IF encOk THEN [ok |-> TRUE, data |-> Shaped("PngBytes", <<0, 0>>, pngLen)]
            ELSE [ok |-> FALSE, data |-> data]
      [] st.ty = "OcrText" ->
            IF ocrOk THEN [ok |-> TRUE, data |-> Shaped("Text", <<0, 0>>, 0)]
            ELSE [ok |-> FALSE, data |-> data]

ShInit ==
    /\ s_pc = "steps"
    /\ \E dim \in ImageDims : \E card \in CardsIn(dim) : s_input = [dim |-> dim, card |-> card]
    /\ s_i = 0
    /\ s_data = Shaped("Rgb8", s_input.dim, 0)
    /\ s_result = [tag |-> "Pending", step |-> ""]
    /\ notShIdle

\* one iteration of the loop at lines 145-147 with debug off
ShapeStep ==
    /\ s_pc = "steps"
    /\ s_i < Len(Steps)
    /\ \E pngLen \in PngLengths : \E encOk \in BOOLEAN : \E ocrOk \in BOOLEAN :
          LET st == Steps[s_i + 1]
              r == Shape_process(st, s_data, s_input, pngLen, encOk, ocrOk)
          IN \* an image of positive size always encodes
             /\ (st.ty = "EncodePng" /\ s_data.dim[1] >= 1 /\ s_data.dim[2] >= 1) => encOk
             /\ IF r.ok
                THEN /\ s_data' = r.data
                     /\ s_i' = s_i + 1
                     /\ s_pc' = IF s_i' >= Len(Steps) THEN "done" ELSE "steps"
                     /\ s_result' = IF s_i' >= Len(Steps) THEN [tag |-> "Ok", step |-> ""]
                                    ELSE s_result
                ELSE /\ s_result' = [tag |-> "Err", step |-> Step_name(st)]
                     /\ s_pc' = "done"
                     /\ UNCHANGED <<s_data, s_i>>
    /\ UNCHANGED s_input
    /\ UNCHANGED notShVars

ShNext == ShapeStep

SpecShapes == ShInit /\ [][ShNext]_vars

-----------------------------------------------------------------------------
(* /play commands of one user: play_command (play.rs:49-79),                 *)
(* Players::get_by_user_id and Players::create (sheets/players/mod.rs:53-100) *)
(* over the shared GSheet (sheets/gsheet.rs:23-26). Every Sheets call takes   *)
(* the Mutex for the length of that one call only.                            *)

Commands == 1..MaxCommands

\* the user issuing the commands, and another user of the sheet
TheUser == "u1"
UserIds == {"u1", "u2"}

\* player_list.into_iter().find(|p| p.user_id == user_id) is Some
HasPlayer(rows, user_id) == \E i \in 1..Len(rows) : rows[i] = user_id

\* the positions at which a command waits for sheets.lock().await, and the
\* position it has once it holds the lock
Locked(at) ==
    CASE at = "tracks" -> "tracks locked"
      [] at = "lookup" -> "lookup locked"
      [] at = "set_track" -> "set_track locked"
      [] at = "create check" -> "create check locked"
      [] at = "append" -> "append locked"
Waiting == {"tracks", "lookup", "set_track", "create check", "append"}

PyInit ==
    /\ y_pc = [c \in Commands |-> "tracks"]
    /\ y_lock = 0
    /\ y_rows \in {<<>>, <<"u2">>, <<"u1">>, <<"u2", "u1">>}
    /\ y_outcome = [c \in Commands |-> "Pending"]
    /\ notPyIdle

\* leave the command c with an outcome, or move it on, releasing the lock
PyEnd(c, outcome) ==
    /\ y_pc' = [y_pc EXCEPT ![c] = "done"]
    /\ y_outcome' = [y_outcome EXCEPT ![c] = outcome]
    /\ y_lock' = 0
PyGoto(c, at) ==
    /\ y_pc' = [y_pc EXCEPT ![c] = at]
    /\ y_outcome' = y_outcome
    /\ y_lock' = 0

\* self.gsheet.sheets.lock().await: granted when the Mutex is free
SheetsLock ==
    /\ y_lock = 0
    /\ \E c \in Commands :
          /\ y_pc[c] \in Waiting
          /\ y_lock' = c
          /\ y_pc' = [y_pc EXCEPT ![c] = Locked(y_pc[c])]
    /\ UNCHANGED <<y_rows, y_outcome>>
    /\ UNCHANGED notPyVars

\* play.rs:55-62: tracks().get_all() and the validity of the track name
TracksGetAll ==
    /\ \E c \in Commands : \E r \in {"Err", "invalid", "valid"} :
          /\ y_pc[c] = "tracks locked"
          /\ IF r = "Err" THEN PyEnd(c, "Failure")
             ELSE IF r = "invalid" THEN PyEnd(c, "InvalidTrack")
             ELSE PyGoto(c, "lookup")
    /\ UNCHANGED y_rows
    /\ UNCHANGED notPyVars

\* play.rs:65-68: players.get_by_user_id(user_id)
PlayLookup ==
    /\ \E c \in Commands : \E ok \in BOOLEAN :
          /\ y_pc[c] = "lookup locked"
          /\ IF ~ok THEN PyEnd(c, "Failure")
             ELSE IF HasPlayer(y_rows, TheUser) THEN PyGoto(c, "set_track")
             ELSE PyGoto(c, "create check")
    /\ UNCHANGED y_rows
    /\ UNCHANGED notPyVars

\* play.rs:67: player.set_current_track(..).await.is_ok()
PlaySetTrack ==
    /\ \E c \in Commands : \E ok \in BOOLEAN :
          /\ y_pc[c] = "set_track locked"
          /\ PyEnd(c, IF ok THEN "Success" ELSE "Failure")
    /\ UNCHANGED y_rows
    /\ UNCHANGED notPyVars

\* players/mod.rs:62-64: the get_by_user_id at the head of Players::create
CreateCheck ==
    /\ \E c \in Commands : \E ok \in BOOLEAN :
          /\ y_pc[c] = "create check locked"
          /\ IF ~ok \/ HasPlayer(y_rows, TheUser) THEN PyEnd(c, "Failure")
             ELSE PyGoto(c, "append")
    /\ UNCHANGED y_rows
    /\ UNCHANGED notPyVars

\* players/mod.rs:82-99: values_append of the new row
CreateAppend ==
    /\ \E c \in Commands : \E ok \in BOOLEAN :
          /\ y_pc[c] = "append locked"
          /\ y_rows' = IF ok THEN Append(y_rows, TheUser) ELSE y_rows
          /\ PyEnd(c, IF ok THEN "Success" ELSE "Failure")
    /\ UNCHANGED notPyVars

PyNext == SheetsLock \/ TracksGetAll \/ PlayLookup \/ PlaySetTrack \/ CreateCheck \/ CreateAppend

SpecPlay == PyInit /\ [][PyNext]_vars

-----------------------------------------------------------------------------
(* One uploaded image: process_ocr_message (messages/image.rs:63-117),        *)
(* Players::get_by_user_id (sheets/players/mod.rs:31-59), Player::from_row    *)
(* (sheets/players/player.rs:20-41), Records::create                          *)
(* (sheets/records/mod.rs:65-116) and the cell conversions of sheets/utils.rs *)

\* serde_json::Value of a sheet cell. A Number is plus + num / den.
JString(s) == [kind |-> "String", str |-> s, plus |-> 0, num |-> 0, den |-> 1]
JNumber(plus, num, den) == [kind |-> "Number", str |-> <<>>, plus |-> plus, num |-> num, den |-> den]
JNull == [kind |-> "Null", str |-> <<>>, plus |-> 0, num |-> 0, den |-> 1]

\* utils.rs:194-195
SHEETS_EPOCH_UNIX_DAYS == 25569
SECS_PER_DAY == 86400

\* Option<String> and Option<Player>
NoString == [some |-> FALSE, name |-> <<>>]
SomeString(s) == [some |-> TRUE, name |-> s]
NoPlayer == [some |-> FALSE, rownum |-> 0, user_id |-> 0, current_track |-> NoString]

\* get_u64 (utils.rs:59-77): a whole Number, or a String that parses
get_u64_ok(v) ==
    \/ v.kind = "Number" /\ v.den = 1 /\ v.num >= 0
    \/ v.kind = "String" /\ v.str # <<>> /\ ParseU64Ok(v.str)
get_u64(v) == IF v.kind = "Number" THEN v.plus + v.num ELSE ParseU64(v.str)

\* get_string (utils.rs:79-88): only a String
get_string_ok(v) == v.kind = "String"

\* timestamp_to_value (utils.rs:197-207): serial days of the Amsterdam local time
timestamp_to_value(timestamp, utc_offset) ==
    JNumber(SHEETS_EPOCH_UNIX_DAYS, timestamp + utc_offset, SECS_PER_DAY)

\* duration_to_value (utils.rs:209-216): the Duration, given in milliseconds,
\* as a fraction of a day
duration_to_value(ms) == JNumber(0, ms, 1000 * SECS_PER_DAY)

\* values.get(k).unwrap_or(&Value::Null)
CellOr(row, k) == IF k <= Len(row) THEN row[k] ELSE JNull

\* Player::from_row succeeds: a user id and a display name are there
Player_from_row_ok(row) ==
    /\ Len(row) >= 1 /\ get_u64_ok(row[1])
    /\ Len(row) >= 2 /\ get_string_ok(row[2])

\* Player::from_row
Player_from_row(rownum, row) ==
    [some |-> TRUE, rownum |-> rownum, user_id |-> get_u64(row[1]),
     current_track |-> IF get_string_ok(CellOr(row, 3))
                       THEN SomeString(CellOr(row, 3).str) ELSE NoString]

\* faulty variant: the first player of the list, whoever it is
get_by_user_id_first(rows, user_id) ==
    LET hits == {i \in 1..Len(rows) : Player_from_row_ok(rows[i])}
    IN IF hits = {} THEN NoPlayer
       ELSE LET i == CHOOSE j \in hits : \A k \in hits : j <= k
            IN Player_from_row(i + 1, rows[i])

\* Players::get_all then find(|p| p.user_id == user_id): rows that do not
\* deserialize are skipped; sheet row 1 is the header
get_by_user_id(rows, user_id) ==
    LET hits == {i \in 1..Len(rows) :
                    Player_from_row_ok(rows[i]) /\ get_u64(rows[i][1]) = user_id}
    IN IF hits = {} THEN NoPlayer
       ELSE LET i == CHOOSE j \in hits : \A k \in hits : j <= k
            IN Player_from_row(i + 1, rows[i])

\* the row Records::create builds (lines 73-87)
RecordRow(user_message_id, bot_message_id, timestamp, utc_offset, driver_user_id, track_name, race_duration) ==
    << JString(ToDecimal(user_message_id)),
       JString(ToDecimal(bot_message_id)),
       timestamp_to_value(timestamp, utc_offset),
       JString(ToDecimal(driver_user_id)),
       JString(track_name),
       duration_to_value(race_duration) >>

\* the people posting images, the tracks, and the cells a Players row can hold
AuthorIds == {7, 42}
TrackNames == {<<"M", "C">>, <<"R", "R">>}
UserIdCells == {JString(ToDecimal(a)) : a \in AuthorIds} \cup {JNull}
TrackCells == {JString(<<"M", "C">>), JNumber(0, 3, 1)}
PlayerRows ==
    {<<u, JString(<<"n">>)>> : u \in UserIdCells}
      \cup {<<u, JString(<<"n">>), t>> : u \in UserIdCells, t \in TrackCells}
PlayerSheets == {<<>>} \cup {<<r>> : r \in PlayerRows}
                  \cup {<<r1, r2>> : r1 \in PlayerRows, r2 \in PlayerRows}

\* the times extract_time can return
ExtractedTimes == {83456, 599999}

\* a row an earlier upload left in the Records sheet
EarlierRow == RecordRow(1, 2, 1700000000, 3600, 42, <<"M", "C">>, 90000)
PriorRecords(msg) == IF msg.prior = 1 THEN <<EarlierRow>> ELSE <<>>

OcInit ==
    /\ o_pc = "extract"
    /\ o_msg \in [author : AuthorIds, id : {11}, bot_id : {12},
                  timestamp : {1762000000}, utc_offset : {3600}, prior : {0, 1}]
    /\ o_players \in PlayerSheets
    /\ o_edits = 0
    /\ o_time = [ok |-> FALSE, ms |-> 0]
    /\ o_player = NoPlayer
    /\ o_records = PriorRecords(o_msg)
    /\ o_outcome = [tag |-> "Pending", rownum |-> 0]
    /\ notOcIdle

\* return OcrProcessOutcome::..
OcEnd(tag, rownum) ==
    /\ o_pc' = "done"
    /\ o_outcome' = [tag |-> tag, rownum |-> rownum]

\* lines 69-75: extract_time(&bytes)
OcExtract ==
    /\ o_pc = "extract"
    /\ \/ /\ \E ms \in ExtractedTimes : o_time' = [ok |-> TRUE, ms |-> ms]
          /\ o_pc' = "lookup"
          /\ o_outcome' = o_outcome
       \/ /\ o_time' = o_time
          /\ OcEnd("InvalidImage", 0)
    /\ UNCHANGED <<o_msg, o_players, o_edits, o_player, o_records>>
    /\ UNCHANGED notOcVars

\* lines 81-93: the lookup of the author's player, then its current track
OcLookup ==
    /\ o_pc = "lookup"
    /\ \E readOk \in BOOLEAN :
          LET p == get_by_user_id(o_players, o_msg.author)
          IN IF ~readOk THEN OcEnd("StorageFailure", 0) /\ o_player' = o_player
             ELSE IF ~p.some THEN OcEnd("PlayerMissing", 0) /\ o_player' = o_player
             ELSE IF ~p.current_track.some THEN OcEnd("TrackMissing", 0) /\ o_player' = p
             ELSE o_player' = p /\ o_pc' = "create" /\ o_outcome' = o_outcome
    /\ UNCHANGED <<o_msg, o_players, o_edits, o_time, o_records>>
    /\ UNCHANGED notOcVars

\* another handler's Player::set_current_track (player.rs:53-59) on some row,
\* while this upload is being processed
OcOtherSetTrack ==
    /\ o_pc \in {"lookup", "create"}
    /\ o_edits = 0
    /\ \E i \in 1..Len(o_players) : \E t \in TrackNames :
          /\ Player_from_row_ok(o_players[i])
          /\ CellOr(o_players[i], 3) # JString(t)
          /\ o_players' = [o_players EXCEPT ![i] = <<o_players[i][1], o_players[i][2], JString(t)>>]
    /\ o_edits' = 1
    /\ UNCHANGED <<o_pc, o_msg, o_time, o_player, o_records, o_outcome>>
    /\ UNCHANGED notOcVars

\* lines 95-116: Records::create. landed: the appended row reached the sheet;
\* replied: the call returned Ok with a range the row number is read from
OcCreate ==
    /\ o_pc = "create"
    /\ \E landed \in BOOLEAN : \E replied \in BOOLEAN :
          LET row == RecordRow(o_msg.id, o_msg.bot_id, o_msg.timestamp, o_msg.utc_offset,
                               o_msg.author, o_player.current_track.name, o_time.ms)
          IN /\ replied => landed
             /\ o_records' = IF landed THEN Append(o_records, row) ELSE o_records
             /\ IF replied THEN OcEnd("Success", Len(o_records') + 1)
                ELSE OcEnd("StorageFailure", 0)
    /\ UNCHANGED <<o_msg, o_players, o_edits, o_time, o_player>>
    /\ UNCHANGED notOcVars

OcNext == OcExtract \/ OcLookup \/ OcOtherSetTrack \/ OcCreate

SpecUpload == OcInit /\ [][OcNext]_vars

-----------------------------------------------------------------------------
(* Setters of a Record and of a Player (sheets/records/record.rs:80-104,     *)
(* sheets/players/player.rs:44-60) over GSheet::write_cell                   *)
(* (sheets/gsheet.rs:76-98)                                                  *)

\* The sheets are "Records" (records/mod.rs:16) and "Players"
\* (players/mod.rs:15), both with FIRST_COLUMN "A"; the columns set are
\* DRIVER_USER_ID "D", TRACK_NAME "E", RACE_DURATION "F" (records/mod.rs:31-33),
\* DISPLAY_NAME "B" and CURRENT_TRACK "C" (players/mod.rs:28-29).

\* faulty variant: the range of the first cell of the row
cell_range_first(sheet, row, col) ==
    [sheet |-> sheet, c1 |-> "A", r1 |-> row, c2 |-> "A", r2 |-> row]

\* DataRanges::cell_range (utils.rs:45-47): "{SHEET}!{col}{row}:{col}{row}"
cell_range(sheet, row, col) ==
    [sheet |-> sheet, c1 |-> col, r1 |-> row, c2 |-> col, r2 |-> row]

\* the data rows and the cells of the two sheets
RowNums == {2, 3}
SheetCells ==
    {<<"Records", c, r>> : c \in {"A", "B", "C", "D", "E", "F"}, r \in RowNums}
      \cup {<<"Players", c, r>> : c \in {"A", "B", "C"}, r \in RowNums}

\* values_update of a one-by-one grid at a range: the cell at its top left
values_update(sheet, range, value) ==
    [cell \in DOMAIN sheet |->
        IF cell = <<range.sheet, range.c1, range.r1>> THEN value ELSE sheet[cell]]

\* the arguments the setters are called with
NewUserIds == {7, 42}
NewTrackNames == {<<"M", "C">>, <<"R", "R">>}
NewDurations == {83456, 599999}
NewDisplayNames == {<<"a">>, <<"b">>}

\* the sheets before any setter runs: each row as its creation wrote it
InitialSheet(record, player) ==
    [cell \in SheetCells |->
        LET c == cell[2]
            own == IF cell[1] = "Records" THEN cell[3] = record.rownum
                   ELSE cell[3] = player.rownum
        IN IF cell[1] = "Records"
           THEN RecordRow(IF own THEN record.user_message_id ELSE 1,
                          IF own THEN record.bot_message_id ELSE 2,
                          1762000000, 3600,
                          IF own THEN record.driver_user_id ELSE 7,
                          IF own THEN record.track_name ELSE <<"M", "C">>,
                          IF own THEN record.race_duration ELSE 83456)
                    [CHOOSE k \in 1..6 : <<"A", "B", "C", "D", "E", "F">>[k] = c]
           ELSE IF c = "A" THEN JString(ToDecimal(IF own THEN player.user_id ELSE 42))
           ELSE IF c = "B" THEN JString(IF own THEN player.display_name ELSE <<"b">>)
           ELSE IF own /\ player.current_track.some THEN JString(player.current_track.name)
           ELSE JNull]

StInit ==
    /\ e_record \in [rownum : RowNums, user_message_id : {11}, bot_message_id : {12},
                     report_timestamp : {1762000000}, driver_user_id : {7},
                     track_name : {<<"M", "C">>}, race_duration : {83456}]
    /\ e_player \in [rownum : {2}, user_id : {7}, display_name : {<<"a">>},
                     current_track : {NoString, SomeString(<<"M", "C">>)}]
    /\ e_sheet = InitialSheet(e_record, e_player)
    /\ e_last = [setter |-> "", value |-> JNull, ok |-> TRUE]
    /\ notStIdle

\* GSheet::write_cell(cell, value). ok: values_update returned Ok; landed:
\* the sheet took the value (it always did when the call returned Ok)
write_cell(range, value, ok, landed) ==
    /\ ok => landed
    /\ e_sheet' = IF landed THEN values_update(e_sheet, range, value) ELSE e_sheet

\* Record::set_driver_user_id
SetDriverUserId ==
    /\ e_sheet # <<>>
    /\ \E user_id \in NewUserIds : \E ok \in BOOLEAN : \E landed \in BOOLEAN :
          LET cell == cell_range("Records", e_record.rownum, "D")
              value == JString(ToDecimal(user_id))
          IN /\ write_cell(cell, value, ok, landed)
             /\ e_record' = IF ok THEN [e_record EXCEPT !.driver_user_id = user_id] ELSE e_record
             /\ e_last' = [setter |-> "set_driver_user_id", value |-> value, ok |-> ok]
    /\ UNCHANGED e_player
    /\ UNCHANGED notStVars

\* Record::set_track_name
SetTrackName ==
    /\ e_sheet # <<>>
    /\ \E track_name \in NewTrackNames : \E ok \in BOOLEAN : \E landed \in BOOLEAN :
          LET cell == cell_range("Records", e_record.rownum, "E")
              value == JString(track_name)
          IN /\ write_cell(cell, value, ok, landed)
             /\ e_record' = IF ok THEN [e_record EXCEPT !.track_name = track_name] ELSE e_record
             /\ e_last' = [setter |-> "set_track_name", value |-> value, ok |-> ok]
    /\ UNCHANGED e_player
    /\ UNCHANGED notStVars

\* Record::set_race_duration: duration_to_value(..).unwrap() cannot fail on a Duration
SetRaceDuration ==
    /\ e_sheet # <<>>
    /\ \E race_duration \in NewDurations : \E ok \in BOOLEAN : \E landed \in BOOLEAN :
          LET cell == cell_range("Records", e_record.rownum, "F")
              value == duration_to_value(race_duration)
          IN /\ write_cell(cell, value, ok, landed)
             /\ e_record' = IF ok THEN [e_record EXCEPT !.race_duration = race_duration] ELSE e_record
             /\ e_last' = [setter |-> "set_race_duration", value |-> value, ok |-> ok]
    /\ UNCHANGED e_player
    /\ UNCHANGED notStVars

\* Player::set_display_name
SetDisplayName ==
    /\ e_sheet # <<>>
    /\ \E display_name \in NewDisplayNames : \E ok \in BOOLEAN : \E landed \in BOOLEAN :
          LET cell == cell_range("Players", e_player.rownum, "B")
              value == JString(display_name)
          IN /\ write_cell(cell, value, ok, landed)
             /\ e_player' = IF ok THEN [e_player EXCEPT !.display_name = display_name] ELSE e_player
             /\ e_last' = [setter |-> "set_display_name", value |-> value, ok |-> ok]
    /\ UNCHANGED e_record
    /\ UNCHANGED notStVars

\* Player::set_current_track
SetCurrentTrack ==
    /\ e_sheet # <<>>
    /\ \E track_name \in NewTrackNames : \E ok \in BOOLEAN : \E landed \in BOOLEAN :
          LET cell == cell_range("Players", e_player.rownum, "C")
              value == JString(track_name)
          IN /\ write_cell(cell, value, ok, landed)
             /\ e_player' = IF ok THEN [e_player EXCEPT !.current_track = SomeString(track_name)]
                            ELSE e_player
             /\ e_last' = [setter |-> "set_current_track", value |-> value, ok |-> ok]
    /\ UNCHANGED e_record
    /\ UNCHANGED notStVars

StNext ==
    SetDriverUserId \/ SetTrackName \/ SetRaceDuration \/ SetDisplayName \/ SetCurrentTrack

SpecSetters == StInit /\ [][StNext]_vars

-----------------------------------------------------------------------------
(* Claims about the provider failover *)

\* the statuses the specification lists as retryable
RetryStatuses == {429, 500, 502, 503, 504}

\* the attempt failed before or while sending: no response arrived
SendFailed(a) == a.net \in {"connect error", "timeout"}
\* the attempt failed at the network level, at any point of the exchange
NetworkFailed(a) == SendFailed(a) \/ a.body \in {"body timeout", "body connection reset"}
\* the attempt ran into the client's 30 s timeout, at any point of the exchange
TimedOut(a) == a.net = "timeout" \/ a.body = "body timeout"
\* the provider answered with one of the retryable statuses
RetryStatusAnswer(a) == a.net = "ok" /\ a.status \in RetryStatuses
\* the provider answered with a success status and a decodable body
SuccessAnswer(a) == a.net = "ok" /\ a.status \in 200..299 /\ a.body = "decoded"
\* the attempt is over (the body of a success response is not being read)
Completed(a) == a.body # "reading"

\* the error the attempt at position a.pos ends with, read off the exchange
ExpectedErr(a) ==
    LET name == IF providers[a.pos] = "OpenRouter" THEN "openrouter" ELSE "groq"
    IN IF a.net = "not sent"
       THEN Err("ProviderDecode", name, 0,
                IF name = "openrouter" THEN "missing OPENROUTER_API_KEY"
                ELSE "missing GROQ_API_KEY", <<>>)
       ELSE IF SendFailed(a) THEN Err("Http", "", 0, a.net, <<>>)
       ELSE IF a.status = 429 THEN Err("RateLimited", name, 0, "", <<>>)
       ELSE IF a.status \notin 200..299 THEN Err("ProviderStatus", name, a.status, "", <<>>)
       ELSE Err("ProviderDecode", name, 0, a.body, <<>>)

\* the result of post-processing each content a provider may generate
ExpectedResult(choices) ==
    IF choices = <<>> THEN ErrYellowMissing
    ELSE IF choices[1] = <<"1", ":", "2", "3", ".", "4", "5", "6">> THEN OkDuration(83456)
    ELSE IF choices[1] = <<"t", "=", "0", ":", "0", "5", ".", "2", "5", "0", "!">>
    THEN OkDuration(5250)
    ELSE ErrYellowMissing

\* after the k-th attempt the loop went on to the next list position
Advanced(k) ==
    \/ k < Len(answers)
    \/ k = Len(answers) /\ pc \in {"loop", "sending", "body"} /\ idx > answers[k].pos
\* after the k-th attempt the call ended although later providers were configured
Stopped(k) ==
    k = Len(answers) /\ pc = "done" /\ answers[k].pos < Len(providers)

\* C1: when the first provider answers 429 and the second answers with a success
\* response, the call returns the post-processed text of the second provider and
\* no provider after the second receives a request.
C1_SecondProviderResult ==
    ( /\ Len(answers) >= 2
      /\ answers[1].pos = 1 /\ answers[1].net = "ok" /\ answers[1].status = 429
      /\ answers[2].pos = 2 /\ SuccessAnswer(answers[2]) )
    => /\ pc = "done"
       /\ result = ExpectedResult(answers[2].content)
       /\ sent = <<1, 2>>
       /\ Len(answers) = 2

C1_Witness ==
    /\ Len(providers) = 3
    /\ Len(answers) = 2
    /\ answers[1].status = 429
    /\ SuccessAnswer(answers[2])
    /\ result = OkDuration(83456)

\* C2: when the first provider answers 401 the call returns an error and no
\* request is sent to the second or any later provider.
C2_FatalStopsAtFirst ==
    ( /\ Len(answers) >= 1
      /\ answers[1].pos = 1 /\ answers[1].net = "ok" /\ answers[1].status = 401 )
    => /\ pc = "done"
       /\ result = ExpectedErr(answers[1])
       /\ result.kind = "ProviderStatus" /\ result.code = 401
       /\ sent = <<1>>

C2_Witness ==
    /\ Len(providers) >= 2
    /\ providers[2] \in env_keys
    /\ Len(answers) = 1
    /\ answers[1].status = 401
    /\ pc = "done"

\* C3: after a failed attempt the loop advances to the next provider if and only
\* if the attempt failed with 429, 500, 502, 503, 504 or a network-level failure;
\* after any other failure it stops; the same for every provider.
C3_RetryClassification ==
    \A k \in 1..Len(answers) :
        LET a == answers[k]
        IN (Completed(a) /\ ~SuccessAnswer(a)) =>
              IF RetryStatusAnswer(a) \/ NetworkFailed(a)
              THEN ~Stopped(k) /\ (a.pos < Len(providers) => Advanced(k))
              ELSE ~Advanced(k) /\ pc = "done"

\* C4 (as claimed): the call fails with NoProviders when the provider list is
\* empty and also when every provider was tried and failed with a retryable error.
Exhausted ==
    /\ pc = "done"
    /\ Len(providers) >= 1
    /\ Len(answers) = Len(providers)
    /\ \A k \in 1..Len(answers) :
          answers[k].pos = k /\ (RetryStatusAnswer(answers[k]) \/ SendFailed(answers[k]))

C4_Original ==
    /\ (pc = "done" /\ providers = <<>>) => result = ErrNoProviders
    /\ Exhausted => result = ErrNoProviders

\* C4 (amended): the call fails with NoProviders when the provider list is empty;
\* when every provider was tried and failed with a retryable error it fails with
\* the error of the last provider tried, never with NoProviders.
C4_ExhaustedReturnsLastError ==
    /\ (pc = "done" /\ providers = <<>>) => (result = ErrNoProviders /\ sent = <<>>)
    /\ Exhausted => /\ result = ExpectedErr(answers[Len(answers)])
                    /\ result.kind \in {"RateLimited", "ProviderStatus", "Http"}

C4_Witness ==
    /\ Exhausted
    /\ Len(providers) = 2
    /\ answers[1].status = 503
    /\ answers[2].status = 429
    /\ result.kind = "RateLimited"

\* C5: when an attempt fails with a non-retryable error, the error returned to the
\* caller is that error, not one recorded from an earlier retryable attempt and
\* not a generic one.
C5_FirstFatalReturned ==
    \A k \in 1..Len(answers) :
        LET a == answers[k]
        IN ( /\ Completed(a) /\ ~SuccessAnswer(a)
             /\ ~RetryStatusAnswer(a) /\ ~SendFailed(a) )
           => /\ k = Len(answers)
              /\ pc = "done"
              /\ result = ExpectedErr(a)
              /\ \A j \in 1..(k - 1) : RetryStatusAnswer(answers[j]) \/ SendFailed(answers[j])

C5_Witness ==
    /\ pc = "done"
    /\ Len(answers) = 2
    /\ answers[1].status = 429
    /\ answers[2].status = 401
    /\ result.kind = "ProviderStatus" /\ result.code = 401

\* C6: providers are contacted one at a time in list order: position i+1 gets its
\* request only after the request to position i completed with a retryable error,
\* each position gets at most one request, and never are two requests in flight.
C6_SequentialFailover ==
    /\ Cardinality(inflight) <= 1
    /\ \A k \in 1..Len(sent) : sent[k] = k
    /\ \A k \in 1..Len(sent) :
          k > 1 => /\ Len(answers) >= k - 1
                   /\ answers[k - 1].pos = k - 1
                   /\ RetryStatusAnswer(answers[k - 1]) \/ SendFailed(answers[k - 1])
    /\ \A i \in inflight : i = Len(sent) /\ pc \in {"sending", "body"}

C6_Witness ==
    /\ Len(sent) = 3
    /\ pc = "sending"
    /\ inflight = {3}
    /\ Len(answers) = 2

\* C7: an attempt that exceeds the client's 30 s timeout, while the request is sent
\* or while the response body is read, counts as a transport failure and the next
\* configured provider is tried.
C7_TimeoutFailsOver ==
    \A k \in 1..Len(answers) :
        TimedOut(answers[k]) =>
            /\ ~Stopped(k)
            /\ answers[k].pos < Len(providers) => Advanced(k)

-----------------------------------------------------------------------------
(* Claims about the step pipeline *)

\* the run on the same input with debug disabled
RECURSIVE RunFromDebugOff(_, _, _)
RunFromDebugOff(i, data, input) ==
    IF i >= Len(Steps) THEN FinalResult(data)
    ELSE LET r == Step_run(Steps[i + 1], data, input, FALSE, FALSE, TRUE, TRUE)
         IN IF ~r.ok THEN RunErr(r.step, r.cause)
            ELSE RunFromDebugOff(i + 1, r.data, input)

RunDebugOff(input) ==
    IF ~input.decodable THEN RunErr("", "failed to load image from bytes")
    ELSE RunFromDebugOff(0, Data("Rgb8", <<"original">>), input)

\* the output of the thirteenth step on an input on which no step fails
ExpectedText ==
    <<"original", "mask_yellow", "open r3", "close r3", "open r3", "close r7",
      "find_card", "gray_thresh", "open r3", "close r3", "crop_region",
      "encode_png", "ocr">>

\* C8: if the step at position k fails, the run stops at once: the returned error
\* names step k, no partial IR is returned, and process of no later step is invoked.
C8_FailureNamesStep ==
    (p_pc = "done" /\ p_failed >= 0)
    => /\ p_result.tag = "Err"
       /\ p_result.step = Step_name(Steps[p_failed + 1])
       /\ p_result.value = <<>>
       /\ \A j \in 1..Len(p_calls) : p_calls[j].index <= p_failed

\* C9: in a run in which no step fails every process is invoked exactly once, in
\* list order, each on the output of the step before it, and the run returns the
\* output of the last step; no step is retried, skipped or reordered.
C9_EachStepOnceInOrder ==
    /\ \A j \in 1..Len(p_calls) : p_calls[j].index = j - 1
    /\ \A j \in 1..Len(p_calls) :
          p_calls[j].input = IF j = 1 THEN Data("Rgb8", <<"original">>)
                             ELSE p_calls[j - 1].output
    /\ (p_pc = "done" /\ p_input.decodable /\ p_failed = -1)
       => /\ Len(p_calls) = Len(Steps)
          /\ p_data = p_calls[Len(p_calls)].output
          /\ p_result = RunOk(p_data.term)
          /\ p_result = RunOk(ExpectedText)

C9_Witness ==
    /\ p_pc = "done"
    /\ p_result.tag = "Ok"
    /\ p_debug /\ p_env_DEBUG_FOLDER
    /\ Len(p_calls) = 13
    /\ Cardinality(p_files) = 11

\* C10: the outcome of a run with debug enabled is the outcome of the run on the
\* same input with debug disabled, also when writing a debug artifact fails.
C10_DebugKeepsOutcome ==
    p_pc = "done" => p_result = RunDebugOff(p_input)

-----------------------------------------------------------------------------
(* Claims about the time texts *)

\* the grammar M:SS.mmm : one or more ASCII minute digits, ':', seconds
\* 00-59, '.', three millisecond digits
InGrammar(s) ==
    LET k == Len(s) - 7
    IN /\ k >= 1
       /\ \A i \in 1..k : s[i] \in AsciiDigit
       /\ s[k + 1] = ":"
       /\ s[k + 2] \in {"0", "1", "2", "3", "4", "5"}
       /\ s[k + 3] \in AsciiDigit
       /\ s[k + 4] = "."
       /\ \A i \in (k + 5)..(k + 7) : s[i] \in AsciiDigit

\* the number a string of ASCII digits denotes
DigitNumber(c) ==
    CASE c = "0" -> 0 [] c = "1" -> 1 [] c = "2" -> 2 [] c = "3" -> 3 [] c = "4" -> 4
      [] c = "5" -> 5 [] c = "6" -> 6 [] c = "7" -> 7 [] c = "8" -> 8 [] c = "9" -> 9

RECURSIVE Number(_)
Number(s) ==
    IF s = <<>> THEN 0 ELSE Number(SubSeq(s, 1, Len(s) - 1)) * 10 + DigitNumber(s[Len(s)])

\* the milliseconds a string of the grammar denotes: M*60+SS seconds plus mmm
GrammarMillis(s) ==
    LET k == Len(s) - 7
    IN (Number(SubSeq(s, 1, k)) * 60 + Number(SubSeq(s, k + 2, k + 3))) * 1000
           + Number(SubSeq(s, k + 5, k + 7))

Parsed == t_pc \in {"parsed", "rendered"}

\* C11: parse_duration returns a Duration exactly when the trimmed input is in
\* the grammar M:SS.mmm with one or more minute digits, and every other input
\* is rejected with InvalidFormat.
C11_StrictGrammar ==
    Parsed =>
        /\ (t_parsed.tag = "Ok") <=> InGrammar(Trim(t_text))
        /\ t_parsed.tag = "Err" => t_parsed.kind = "InvalidFormat"

\* C12: a string that parse_duration accepts yields exactly M*60+SS seconds
\* plus mmm milliseconds ("0:00.000" is zero, "1:05.250" is 65.250 s), and
\* "0:60.000" and "12:3.000" are rejected with InvalidFormat.
C12_AcceptedValue ==
    Parsed =>
        /\ t_parsed.tag = "Ok" => InGrammar(t_text) /\ t_parsed.ms = GrammarMillis(t_text)
        /\ t_text = <<"0", ":", "0", "0", ".", "0", "0", "0">> => t_parsed = OkDuration(0)
        /\ t_text = <<"1", ":", "0", "5", ".", "2", "5", "0">> => t_parsed = OkDuration(65250)
        /\ t_text \in {<<"0", ":", "6", "0", ".", "0", "0", "0">>,
                       <<"1", "2", ":", "3", ".", "0", "0", "0">>}
               => t_parsed.tag = "Err" /\ t_parsed.kind = "InvalidFormat"

C12_Witness ==
    /\ t_pc = "parsed"
    /\ t_text = <<"1", ":", "0", "5", ".", "2", "5", "0">>
    /\ t_parsed = OkDuration(65250)

\* C13: for every string of the grammar (one or more minute digits),
\* parse_duration followed by duration_to_string reproduces the string.
C13_RoundTrip ==
    /\ t_pc = "parsed" /\ InGrammar(t_text) => t_parsed.tag = "Ok"
    /\ t_pc = "rendered" => t_str = t_text

\* a substring of s starting at i is in the grammar
GrammarAt(s, i) == \E j \in i..Len(s) : InGrammar(SubSeq(s, i, j))

\* the first substring of s in the grammar: leftmost start, all its minute digits
FirstGrammarSubstring(s) ==
    LET i == CHOOSE a \in 1..Len(s) :
                 GrammarAt(s, a) /\ \A b \in 1..(a - 1) : ~GrammarAt(s, b)
        j == CHOOSE e \in i..Len(s) : InGrammar(SubSeq(s, i, e))
    IN SubSeq(s, i, j)

\* C14: a text that is not itself a strict match but contains a substring of
\* the grammar (one or more minute digits) is post-processed to the Duration
\* of the first such substring, whatever surrounds it.
C14_FirstSubstring ==
    /\ (/\ t_pc = "post"
        /\ ~InGrammar(Trim(t_text))
        /\ \E i \in 1..Len(t_text) : GrammarAt(t_text, i))
           => t_post = OkDuration(GrammarMillis(FirstGrammarSubstring(t_text)))
    /\ (/\ t_pc = "post"
        /\ t_text = <<"Y", "o", "u", "r", " ", "t", "i", "m", "e", " ", "w", "a", "s", " ",
                      "1", ":", "2", "3", ".", "4", "5", "6", ",", " ",
                      "c", "o", "n", "g", "r", "a", "t", "s", "!">>)
           => t_post = OkDuration(83456)

\* the whole trimmed text is the sentinel null in any letter case
IsNullText(s) == ToAsciiLower(Trim(s)) = <<"n", "u", "l", "l">>

\* C15: the sentinel null gives the dedicated no-timer error, and any other
\* text without a time gives a different error, so that a caller can tell
\* the two apart.
C15_NullDistinguished ==
    (t_pc = "post" /\ t_post.tag = "Err") =>
        /\ IsNullText(t_text) => t_post = ErrYellowMissing
        /\ ~IsNullText(t_text) => t_post # ErrYellowMissing

-----------------------------------------------------------------------------
(* Claims about the card finder *)

\* the connected components of the mask, as sets of pixels
ComponentsOf(closed) == {Grow({p}, closed) : p \in closed}

\* the bounding box of a set of pixels
BoundingBox(c) ==
    LET xs == {p[1] : p \in c}
        ys == {p[2] : p \in c}
        lo(S) == CHOOSE a \in S : \A b \in S : a <= b
        hi(S) == CHOOSE a \in S : \A b \in S : a >= b
    IN [left |-> lo(xs), top |-> lo(ys),
        width |-> hi(xs) - lo(xs) + 1, height |-> hi(ys) - lo(ys) + 1]

\* the width/height ratio of the box lies in [3.0, 5.0)
RatioInWindow(b) == b.width >= 3 * b.height /\ b.width < 5 * b.height

Candidates(closed) == {c \in ComponentsOf(closed) : RatioInWindow(BoundingBox(c))}

\* C16: with exactly two components, one whose ratio is in [3.0, 5.0) and one
\* whose ratio is outside, the one in the window is selected, whatever the
\* order and the areas of the two.
C16_WindowBeatsArea ==
    (/\ c_pc = "done"
     /\ Cardinality(ComponentsOf(c_closed)) = 2
     /\ Cardinality(Candidates(c_closed)) = 1)
        => /\ c_result.ok
           /\ c_result.rect = <<BoundingBox(CHOOSE c \in Candidates(c_closed) : TRUE)>>

\* two components, the one outside the window with the larger bounding box
C16_Witness ==
    /\ c_pc = "done"
    /\ Cardinality(ComponentsOf(c_closed)) = 2
    /\ \E c \in Candidates(c_closed) : \E d \in ComponentsOf(c_closed) \ Candidates(c_closed) :
          /\ BoundingBox(d).width * BoundingBox(d).height
                 > BoundingBox(c).width * BoundingBox(c).height
          /\ c_result.rect = <<BoundingBox(c)>>

\* C17: when no component has a ratio in the window (an all-background mask
\* included) the step fails with the no-candidate error and crops nothing.
C17_NoCandidateError ==
    (c_pc = "done" /\ Candidates(c_closed) = {})
        => /\ ~c_result.ok
           /\ c_result.cause = "no card found"
           /\ c_result.rect = <<>>

\* components exist and none is in the window
C17_Witness ==
    /\ c_pc = "done"
    /\ ComponentsOf(c_closed) # {}
    /\ Candidates(c_closed) = {}
    /\ ~c_result.ok

\* C20: the result is a function of the input alone, ties between candidates
\* of equal area included: no other order of the map changes it.
C20_Deterministic ==
    c_pc = "done" =>
        LET ext == extents(connected_components(c_closed, c_dim))
        IN \A order \in Orders(DOMAIN ext) : ok_or(card_rect(ext, order), c_dim) = c_result

-----------------------------------------------------------------------------
(* Claims about the payload negotiator *)

\* the first encoding of the call succeeded and its base64 text is within
\* the budget
InitialEncodingFits ==
    /\ d_round = 1
    /\ d_attempts # <<>>
    /\ d_attempts[1].raw >= 0
    /\ 4 * ((d_attempts[1].raw + 2) \div 3) <= 3900000

LongSide(dim) == IF dim[1] >= dim[2] THEN dim[1] ELSE dim[2]

C19_WithinBudget ==
    d_pc = "done" =>
        /\ d_result.tag \in {"Ok", "Err"}
        /\ d_result.tag = "Ok" => d_result.b64 <= 3900000
        /\ (d_result.tag = "Err" /\ d_input.decodable) => d_result.kind = "ImageTooLarge"

\* an encoding exactly at the budget, returned after earlier ones did not fit
C19_Witness ==
    /\ d_pc = "done"
    /\ d_round > 1
    /\ d_result.tag = "Ok"
    /\ d_result.b64 = 3900000

-----------------------------------------------------------------------------
(* Claims about the image sizes through the step pipeline *)

\* C21: every value a step produces satisfies the data-model invariant: an
\* image (Rgb8 or Luma8) has width >= 1 and height >= 1, encoded bytes are
\* not empty.
C21_NonZeroDimensions ==
    /\ s_data.variant \in {"Rgb8", "Luma8"} => s_data.dim[1] >= 1 /\ s_data.dim[2] >= 1
    /\ s_data.variant = "PngBytes" => s_data.len > 0

-----------------------------------------------------------------------------
(* Further claims about the provider failover *)

\* the success response of the attempt carries no generated text
NoGeneratedText(a) == SuccessAnswer(a) /\ a.content = <<>>

\* the attempt did not produce a text: it failed, or nothing was generated
AttemptFailed(a) == Completed(a) /\ (~SuccessAnswer(a) \/ NoGeneratedText(a))

\* C22: no failure is replaced by a default: when the last attempt of a call
\* failed, a response without generated text included, the caller receives
\* a typed error that names the provider exchange as its origin, never a
\* Duration and never the outcome of post-processing an empty default text.
C22_NoDefaultOnFailure ==
    (pc = "done" /\ answers # <<>> /\ AttemptFailed(answers[Len(answers)]))
        => /\ result.tag = "Err"
           /\ result.kind \in {"Http", "RateLimited", "ProviderStatus", "ProviderDecode"}

\* C26: once a provider returns a success response the call returns the
\* post-processing result of that provider's text, an error included, and no
\* further provider is contacted.
C26_SuccessEndsCall ==
    \A k \in 1..Len(answers) :
        SuccessAnswer(answers[k]) =>
            /\ k = Len(answers)
            /\ pc = "done"
            /\ result = ExpectedResult(answers[k].content)
            /\ sent[Len(sent)] = answers[k].pos
            /\ inflight = {}

\* the first provider's text holds no time and a second provider is configured
C26_Witness ==
    /\ Len(providers) >= 2
    /\ Len(answers) = 1
    /\ SuccessAnswer(answers[1])
    /\ answers[1].pos = 1
    /\ answers[1].content = << <<" ", "N", "u", "l", "l">> >>
    /\ result = ErrYellowMissing
    /\ sent = <<1>>

-----------------------------------------------------------------------------
(* Further claims about the card finder *)

BoxArea(c) == BoundingBox(c).width * BoundingBox(c).height

\* where the row-major scan of the mask first meets the component
FirstMet(c) ==
    LET pos(p) == p[2] * c_dim[1] + p[1]
    IN CHOOSE n \in {pos(p) : p \in c} : \A p \in c : n <= pos(p)

\* the candidates of greatest area
Largest(closed) ==
    {c \in Candidates(closed) : \A d \in Candidates(closed) : BoxArea(c) >= BoxArea(d)}

\* C23: among the boxes that pass the ratio filter the one of greatest area is
\* selected, and of several with the same greatest area the one whose
\* component the row-major scan meets first.
C23_LargestFirstScanned ==
    (c_pc = "done" /\ Candidates(c_closed) # {}) =>
        LET best == CHOOSE c \in Largest(c_closed) :
                        \A d \in Largest(c_closed) : FirstMet(c) <= FirstMet(d)
        IN c_result.ok /\ c_result.rect = <<BoundingBox(best)>>

-----------------------------------------------------------------------------
(* Further claims about the payload negotiator *)

\* an iteration of the loop in which no encoding fitted
RoundWithoutFit == d_pc = "loop" /\ d_round' = d_round + 1 /\ d_result'.tag # "Ok"

\* C24: after a round in which nothing fits, the quality is lowered by 10 while
\* it is above 55 and nothing is resized; the side cap goes to 85% of its value
\* only in a round that starts with the quality at the floor; no image is
\* encoded under a side cap below 512.
C24_QualityBeforeResize ==
    /\ [][RoundWithoutFit =>
            IF d_jpeg_quality > 55
            THEN /\ d_jpeg_quality' = d_jpeg_quality - 10
                 /\ d_side_cap' = d_side_cap
                 /\ d_current' = d_current
            ELSE /\ d_jpeg_quality' = d_jpeg_quality
                 /\ d_side_cap' = (d_side_cap * 85) \div 100
                 /\ IF d_side_cap' >= 512 THEN LongSide(d_current') <= d_side_cap'
                    ELSE d_current' = d_current /\ d_pc' = "done"]_vars
    /\ [](d_pc = "loop" => d_side_cap >= 512 /\ LongSide(d_current) <= d_side_cap)

\* the image has been resized in the loop, the quality being at the floor
C24_Witness ==
    /\ d_pc = "loop"
    /\ d_jpeg_quality = 55
    /\ d_side_cap = 1088
    /\ d_current = <<1088, 612>>

\* no encoding of the call fitted
NothingFitted == d_pc = "done" /\ d_input.decodable /\ d_result.tag # "Ok"

\* C25: the call ends within 10 rounds, and when no round produces a fitting
\* encoding it ends with ImageTooLarge, both when the rounds are used up and
\* when the side cap falls below the minimum side.
C25_TerminatesTooLarge ==
    /\ [](d_round <= 10)
    /\ [](NothingFitted => d_result.tag = "Err" /\ d_result.kind = "ImageTooLarge")
    /\ <>(d_pc = "done")

\* the loop was left by the side cap falling below 512
C25_Witness ==
    /\ NothingFitted
    /\ d_side_cap < 512
    /\ d_result.kind = "ImageTooLarge"

-----------------------------------------------------------------------------
(* Claims about the /play commands *)

RowsOf(user_id) == {i \in 1..Len(y_rows) : y_rows[i] = user_id}

\* C27: whatever the interleaving of the /play commands of one user, the
\* Players sheet never holds two rows with that user_id.
C27_OneRowPerUser ==
    y_pc # <<>> => \A u \in UserIds : Cardinality(RowsOf(u)) <= 1

-----------------------------------------------------------------------------
(* Claims about the variants handed from step to step *)

\* the four messages of a variant mismatch (ocr.rs:25-57)
VariantMismatch ==
    {"Expected RGB image", "Expected Luma image", "Expected PNG bytes", "Expected text"}

\* the variant the step at each index of the sequence unwraps
Consumes ==
    << "Rgb8", "Rgb8", "Luma8", "Luma8", "Luma8", "Luma8", "Luma8",
       "Rgb8", "Luma8", "Luma8", "Luma8", "Luma8", "PngBytes" >>

\* C28: in the 13-step sequence every step is handed the variant it unwraps,
\* the last step produces Text, and no run ends with one of the four
\* variant-mismatch messages.
C28_VariantConsistent ==
    /\ Len(Steps) = 13
    /\ \A k \in 1..Len(p_calls) :
          p_calls[k].input.variant = Consumes[p_calls[k].index + 1]
    /\ p_result.cause \notin VariantMismatch
    /\ (p_pc = "done" /\ p_i = Len(Steps)) => p_data.variant = "Text" /\ p_result.tag = "Ok"

\* a run in which all thirteen steps ran and the text came out
C28_Witness ==
    /\ p_pc = "done"
    /\ Len(p_calls) = 13
    /\ p_result.tag = "Ok"
    /\ p_calls[13].output.variant = "Text"

-----------------------------------------------------------------------------
(* Claims about an uploaded image *)

\* the rows the Records sheet gained since the upload arrived
Appended == SubSeq(o_records, Len(PriorRecords(o_msg)) + 1, Len(o_records))

\* C29: a Records row is appended only when the extraction succeeded, the
\* lookup returned a Players row of the author and that row has a current
\* track; the row then carries the author's id, that track and the extracted
\* duration. No row is appended in the InvalidImage, PlayerMissing and
\* TrackMissing outcomes, nor when the lookup of the player fails.
C29_RowOnlyOnSuccessPath ==
    o_pc # "idle" =>
       /\ Len(Appended) <= 1
       /\ Len(Appended) = 1 =>
             /\ o_time.ok
             /\ o_player.some /\ o_player.user_id = o_msg.author
             /\ o_player.current_track.some
             /\ Appended[1][4] = JString(ToDecimal(o_msg.author))
             /\ Appended[1][5] = JString(o_player.current_track.name)
             /\ Appended[1][6] = duration_to_value(o_time.ms)
       /\ o_outcome.tag \in {"InvalidImage", "PlayerMissing", "TrackMissing"} => Appended = <<>>
       /\ (o_outcome.tag = "StorageFailure" /\ ~o_player.some) => Appended = <<>>
       /\ o_outcome.tag = "Success" => Len(Appended) = 1

\* the upload of a player with a track ended with its row in the sheet
C29_Witness ==
    /\ o_pc = "done"
    /\ o_outcome.tag = "Success"
    /\ Len(Appended) = 1
    /\ Appended[1][5] = JString(<<"R", "R">>)

-----------------------------------------------------------------------------
(* Claims about the setters *)

\* the sheet, the row and the column a setter addresses
TargetCell(setter) ==
    CASE setter = "set_driver_user_id" -> <<"Records", "D", e_record.rownum>>
      [] setter = "set_track_name" -> <<"Records", "E", e_record.rownum>>
      [] setter = "set_race_duration" -> <<"Records", "F", e_record.rownum>>
      [] setter = "set_display_name" -> <<"Players", "B", e_player.rownum>>
      [] setter = "set_current_track" -> <<"Players", "C", e_player.rownum>>

\* the in-memory objects with the field of a setter blanked out
OtherFields(setter, record, player) ==
    CASE setter = "set_driver_user_id" -> <<[record EXCEPT !.driver_user_id = 0], player>>
      [] setter = "set_track_name" -> <<[record EXCEPT !.track_name = <<>>], player>>
      [] setter = "set_race_duration" -> <<[record EXCEPT !.race_duration = 0], player>>
      [] setter = "set_display_name" -> <<record, [player EXCEPT !.display_name = <<>>]>>
      [] setter = "set_current_track" -> <<record, [player EXCEPT !.current_track = NoString]>>

\* the field of a setter, as the cell value that stands for it
FieldAsValue(setter, record, player) ==
    CASE setter = "set_driver_user_id" -> JString(ToDecimal(record.driver_user_id))
      [] setter = "set_track_name" -> JString(record.track_name)
      [] setter = "set_race_duration" -> duration_to_value(record.race_duration)
      [] setter = "set_display_name" -> JString(player.display_name)
      [] setter = "set_current_track" ->
            IF player.current_track.some THEN JString(player.current_track.name) ELSE JNull

\* C30: a setter whose write fails returns the error and leaves its field as
\* it was; one whose write succeeds leaves the field equal to the new value;
\* either way no cell but the one at (rownum, the field's column) is written
\* and no other in-memory field changes.
C30_SetterWritesOneCell ==
    [][LET call == e_last'
       IN /\ call.setter \in {"set_driver_user_id", "set_track_name", "set_race_duration",
                              "set_display_name", "set_current_track"}
          /\ IF call.ok
             THEN /\ FieldAsValue(call.setter, e_record', e_player') = call.value
                  /\ e_sheet'[TargetCell(call.setter)] = call.value
             ELSE FieldAsValue(call.setter, e_record', e_player')
                     = FieldAsValue(call.setter, e_record, e_player)
          /\ \A cell \in SheetCells :
                cell # TargetCell(call.setter) => e_sheet'[cell] = e_sheet[cell]
          /\ OtherFields(call.setter, e_record', e_player')
                = OtherFields(call.setter, e_record, e_player)]_vars

\* a track change of the record failed after a driver change had succeeded
C30_Witness ==
    /\ e_last.setter = "set_track_name"
    /\ ~e_last.ok
    /\ e_record.driver_user_id = 42
    /\ e_record.track_name = <<"M", "C">>
    /\ e_sheet[<<"Records", "D", e_record.rownum>>] = JString(<<"4", "2">>)

====
